---- MODULE Spec2Model ----
(***************************************************************************)
(* Listy importer for Obsidian: the marker-based merge engine, the          *)
(* renderer and the batch loop of ListyImportService (the revision that     *)
(* uses templates, note locking and maxTitleLength).                        *)
(*                                                                          *)
(* Text is a sequence of atoms.  An atom is a TLA+ string: one character    *)
(* ("a", "#", "\n"), or a fixed lexeme that the code emits or searches for  *)
(* as a unit (a marker "%%START-<id>%%", a template placeholder, a header   *)
(* keyword).  Two texts are byte-identical iff their atom sequences are     *)
(* equal: every newline is the one-character atom "\n".                     *)
(***************************************************************************)
EXTENDS Integers, Sequences, FiniteSets, TLC

(***************************************************************************)
(* Bounds of the model.                                                     *)
(***************************************************************************)
MaxPrefix == 2        \* free characters at the head of a filename input
MaxPad == 16          \* run of plain letters that follows them
NumTitleLengths == 2  \* how many positions of the length slider are tried
MaxUuid == 4          \* tokens uuidv4() may hand out in one run
MaxCalls == 3         \* SpecMerge: calls and edits in one run
MaxBatches == 3       \* Spec: imports in one run
MaxEdits == 1         \* Spec: edits the user makes between imports
MaxFailures == 1      \* SpecFail: storage operations that are rejected
MaxTemplateLen == 2   \* SpecRender: atoms of a custom template
MaxRenders == 2       \* SpecRender: times the same Entry is rendered

(***************************************************************************)
(* Program constants.                                                       *)
(***************************************************************************)
MinTitleLength == 10  \* slider.setLimits(10, 105, 5)
TitleLengthStep == 5
EllipsisLength == 3   \* substring(0, maxLength - 3) + '...'
DefaultMaxTitleLength == 105  \* DEFAULT_SETTINGS.maxTitleLength

USER_COMMENT_PLACEHOLDER ==
  "%% Here you can type whatever you want, it will not be overwritten by the plugin. %%"

NUL == "NUL"          \* the character \0

VARIABLES
  settings,           \* this.settings of the service (ListyImporterSettings)
  nextUuid,           \* 1 + the number of tokens uuidv4() has handed out
  fileName,           \* SpecFile: the argument of sanitizeFileName
  sanitized,          \* SpecFile: the value returned, or NotCalled
  mLog,               \* SpecMerge: the calls made so far, with their results
  vault,              \* Spec: the files of the vault, path |-> text
  folders,            \* Spec: the folders of the vault
  data,               \* Spec: listyData, the argument of processListyData
  pc,                 \* Spec: the await at which processListyData stands
  li,                 \* Spec: index of the list being processed
  ii,                 \* Spec: index of the item being processed
  totalNotesCreated,  \* Spec: the local counter of processListyData
  pending,            \* Spec: storage operations issued and not yet performed
  reply,              \* Spec: what the awaited operation resolved to
  outcome,            \* Spec: what processListyData returned or threw
  opLog,              \* Spec: the storage events of the running import
  vault0,             \* Spec: the files when the running import started
  batches,            \* Spec: imports started
  edits,              \* Spec: edits made by the user
  failures,           \* SpecFail: storage operations rejected so far
  entry,              \* SpecRender: the Entry in memory (a ListyItem)
  renders             \* SpecRender: the headers and bodies generated from it

NotCalled == <<"<not called>">>

fileVars == <<fileName, sanitized>>
mergeVars == <<mLog>>
batchVars == <<vault, folders, data, pc, li, ii, totalNotesCreated, pending,
               reply, outcome, opLog, vault0, batches, edits, failures>>
renderVars == <<entry, renders>>
vars == <<settings, nextUuid, fileName, sanitized, mLog, vault, folders, data,
          pc, li, ii, totalNotesCreated, pending, reply, outcome, opLog, vault0,
          batches, edits, failures, entry, renders>>

(***************************************************************************)
(* String helpers (JavaScript String methods on atom sequences).            *)
(***************************************************************************)
Whitespace == {" ", "\n", "\t", "\r"}

Repeat(c, n) == [i \in 1..n |-> c]

\* String.prototype.substring(0, n): a negative n counts as 0
Substring0(s, n) ==
  LET m == IF n < 0 THEN 0 ELSE IF n > Len(s) THEN Len(s) ELSE n
  IN  SubSeq(s, 1, m)

RECURSIVE TrimStart(_)
TrimStart(s) ==
  IF s # <<>> /\ Head(s) \in Whitespace THEN TrimStart(Tail(s)) ELSE s

RECURSIVE TrimEnd(_)
TrimEnd(s) ==
  IF s # <<>> /\ s[Len(s)] \in Whitespace
  THEN TrimEnd(SubSeq(s, 1, Len(s) - 1))
  ELSE s

\* String.prototype.trim()
Trim(s) == TrimEnd(TrimStart(s))

\* s.replace(/c/g, r) for every character c at once, r given by f
RECURSIVE ReplaceEach(_, _)
ReplaceEach(f(_), s) ==
  IF s = <<>> THEN <<>> ELSE f(Head(s)) \o ReplaceEach(f, Tail(s))

(***************************************************************************)
(* sanitizeFileName (ListyImportService.ts 770-797).                        *)
(***************************************************************************)
ForbiddenChars == {"/", "\\", ":", "*", "?", "\"", "<", ">", "|", "=", NUL, "#"}

\* the chain of .replace() calls, one character at a time
SanitizeChar(c) ==
  CASE c \in {"/", "\\", ":", "*", "?", "<", ">", "|", "="} -> <<"-">>
    [] c = "\"" -> <<"'">>
    [] c \in {NUL, "#"} -> <<>>
    [] OTHER -> <<c>>

PrefixDot(s) == IF s # <<>> /\ Head(s) = "." THEN <<"_">> \o s ELSE s

Truncate(s, maxLength) ==
  IF Len(s) > maxLength
  THEN Substring0(s, maxLength - EllipsisLength) \o <<".", ".", ".">>
  ELSE s

\* the same without the step that guards a leading dot
sanitizeFileNameNoPrefix(name) ==
  Truncate(Trim(ReplaceEach(SanitizeChar, name)), settings.maxTitleLength)

sanitizeFileName(name) ==
  Truncate(PrefixDot(Trim(ReplaceEach(SanitizeChar, name))),
           settings.maxTitleLength)

(***************************************************************************)
(* Case conversion.  Keys, types and placeholders are atoms; each row lists *)
(* the spellings of one word that the model uses: lower, UPPER, Mixed.      *)
(***************************************************************************)
WordForms ==
  { <<"description", "DESCRIPTION", "Description">>,
    <<"author", "AUTHOR", "Author">>,
    <<"cover", "COVER", "Cover">>,
    <<"tags", "TAGS", "Tags">>,
    <<"icon", "ICON", "Icon">>,
    <<"user_note", "USER_NOTE", "User_Note">>,
    <<"genre", "GENRE", "Genre">>,
    <<"rating", "RATING", "Rating">>,
    <<"date", "DATE", "Date">>,
    <<"price", "PRICE", "Price">>,
    <<"lock", "LOCK", "Lock">>,
    <<"books", "BOOKS", "Books">>,
    <<"tasks", "TASKS", "Tasks">>,
    <<"type", "TYPE", "Type">>,
    <<"k", "K", "K">>,
    <<"m", "M", "M">>,
    <<"{{title}}", "{{TITLE}}", "{{Title}}">>,
    <<"{{url}}", "{{URL}}", "{{Url}}">>,
    <<"{{type}}", "{{TYPE}}", "{{Type}}">>,
    <<"{{dateadded}}", "{{DATEADDED}}", "{{DateAdded}}">>,
    <<"{{listtitle}}", "{{LISTTITLE}}", "{{ListTitle}}">>,
    <<"{{listtype}}", "{{LISTTYPE}}", "{{ListType}}">>,
    <<"{{create}}", "{{CREATE}}", "{{Create}}">>,
    <<"{{update}}", "{{UPDATE}}", "{{Update}}">>,
    <<"{{description}}", "{{DESCRIPTION}}", "{{Description}}">>,
    <<"{{cover}}", "{{COVER}}", "{{Cover}}">>,
    <<"{{usernote}}", "{{USERNOTE}}", "{{UserNote}}">>,
    <<"{{author}}", "{{AUTHOR}}", "{{Author}}">>,
    <<"{{genre}}", "{{GENRE}}", "{{Genre}}">>,
    <<"{{rating}}", "{{RATING}}", "{{Rating}}">>,
    <<"{{date}}", "{{DATE}}", "{{Date}}">>,
    <<"{{price}}", "{{PRICE}}", "{{Price}}">> }

AllForms == UNION {{t[1], t[2], t[3]} : t \in WordForms}
LowerOf == [w \in AllForms |-> (CHOOSE t \in WordForms : w \in {t[1], t[2], t[3]})[1]]
UpperOf == [w \in AllForms |-> (CHOOSE t \in WordForms : w \in {t[1], t[2], t[3]})[2]]

\* String.prototype.toLowerCase() / toUpperCase() on a word
toLowerCase(w) == IF w \in AllForms THEN LowerOf[w] ELSE w
toUpperCase(w) == IF w \in AllForms THEN UpperOf[w] ELSE w

(***************************************************************************)
(* escapeYamlString (ListyImportService.ts 758-765).                        *)
(***************************************************************************)
EscapeChar(c) ==
  CASE c = "\\" -> <<"\\", "\\">>
    [] c = "\"" -> <<"\\", "\"">>
    [] c = "\n" -> <<"\\", "n">>
    [] c = "\r" -> <<"\\", "r">>
    [] c = "\t" -> <<"\\", "t">>
    [] OTHER -> <<c>>

escapeYamlString(str) == ReplaceEach(EscapeChar, str)

(***************************************************************************)
(* processDescription (630-636): every # becomes settings.tagReplacement.   *)
(***************************************************************************)
HashChar(c) == IF c = "#" THEN settings.tagReplacement ELSE <<c>>

processDescription(description) == ReplaceEach(HashChar, description)

(***************************************************************************)
(* generateFrontmatter (641-727).  attributesMap is a Map: a sequence of    *)
(* <<key, value>> in insertion order of the keys.                           *)
(***************************************************************************)
MapHas(m, k) == \E i \in 1..Len(m) : m[i][1] = k

MapGet(m, k) == m[CHOOSE i \in 1..Len(m) : m[i][1] = k][2]

\* a lookup in which the first value set for a key stays
MapSetFirstWins(m, k, v) == IF MapHas(m, k) THEN m ELSE Append(m, <<k, v>>)

MapSet(m, k, v) ==
  IF MapHas(m, k)
  THEN [i \in 1..Len(m) |-> IF m[i][1] = k THEN <<k, v>> ELSE m[i]]
  ELSE Append(m, <<k, v>>)

RECURSIVE attributesMapOf(_)
attributesMapOf(attributes) ==
  IF attributes = <<>> THEN <<>>
  ELSE LET n == Len(attributes)
           attr == attributes[n]
       IN  MapSet(attributesMapOf(SubSeq(attributes, 1, n - 1)),
                  toLowerCase(attr.key), attr.value)

\* value.replace(/\n/g, '\n  ')
IndentChar(c) == IF c = "\n" THEN <<"\n", " ", " ">> ELSE <<c>>

BlockLiteral(key, value) ==
  <<key, ": |", "\n", " ", " ">> \o ReplaceEach(IndentChar, value) \o <<"\n">>

QuotedScalar(key, value) ==
  <<key, ": ", "\"">> \o escapeYamlString(value) \o <<"\"", "\n">>

\* str.split(',')
RECURSIVE SplitComma(_)
SplitComma(str) ==
  IF \A i \in 1..Len(str) : str[i] # "," THEN <<str>>
  ELSE LET i == CHOOSE j \in 1..Len(str) :
                  str[j] = "," /\ \A k \in 1..(j - 1) : str[k] # ","
       IN  <<SubSeq(str, 1, i - 1)>> \o SplitComma(SubSeq(str, i + 1, Len(str)))

\* tag.replace(/\s+/g, '-')
RECURSIVE CollapseWhitespace(_)
CollapseWhitespace(tag) ==
  IF tag = <<>> THEN <<>>
  ELSE IF Head(tag) \in Whitespace
       THEN <<"-">> \o CollapseWhitespace(TrimStart(tag))
       ELSE <<Head(tag)>> \o CollapseWhitespace(Tail(tag))

TagList(tagsString) ==
  LET pieces == SplitComma(tagsString)
      shaped == [i \in 1..Len(pieces) |-> CollapseWhitespace(Trim(pieces[i]))]
  IN  SelectSeq(shaped, LAMBDA tag : Len(tag) > 0)

RECURSIVE TagLines(_)
TagLines(tags) ==
  IF tags = <<>> THEN <<>>
  ELSE <<" ", " ", "- ", "\"">> \o escapeYamlString(Head(tags)) \o <<"\"", "\n">>
       \o TagLines(Tail(tags))

DescriptionLines(m) ==
  IF MapHas(m, "description")
  THEN BlockLiteral("description", processDescription(MapGet(m, "description")))
  ELSE <<>>

KnownScalarLine(m, key) ==
  IF MapHas(m, key) THEN QuotedScalar(key, MapGet(m, key)) ELSE <<>>

TagsLines(m) ==
  IF MapHas(m, "tags")
  THEN LET tags == TagList(MapGet(m, "tags"))
       IN  (IF settings.includeTags /\ Len(tags) > 0
            THEN <<"tags:", "\n">> \o TagLines(tags)
            ELSE <<>>)
           \o QuotedScalar("original_tags", MapGet(m, "tags"))
  ELSE <<>>

KnownKeys == {"description", "author", "cover", "tags", "icon"}

MaxScalarLength == 80

RECURSIVE RemainingLines(_)
RemainingLines(m) ==
  IF m = <<>> THEN <<>>
  ELSE LET key == Head(m)[1]
           value == Head(m)[2]
       IN  (IF (\E i \in 1..Len(value) : value[i] = "\n")
               \/ Len(value) > MaxScalarLength
            THEN BlockLiteral(key, value)
            ELSE QuotedScalar(key, value))
           \o RemainingLines(Tail(m))

AttributeLines(item) ==
  IF Len(item.attributes) > 0
  THEN LET m == attributesMapOf(item.attributes)
       IN  DescriptionLines(m)
           \o KnownScalarLine(m, "author")
           \o KnownScalarLine(m, "cover")
           \o TagsLines(m)
           \o KnownScalarLine(m, "icon")
           \o RemainingLines(SelectSeq(m, LAMBDA e : e[1] \notin KnownKeys))
  ELSE <<>>

LockLine == <<"lock:", " ", "false", "\n">>

generateFrontmatter(item, list) ==
  <<"---", "\n", "source: listy", "\n">>
  \o QuotedScalar("list", list.title)
  \o <<"dateAdded: ">> \o item.dateAdded \o <<"\n">>
  \o (IF item.url # <<>> THEN QuotedScalar("url", item.url) ELSE <<>>)
  \o <<"type: ", toLowerCase(item.type), "\n">>
  \o AttributeLines(item)
  \o <<"marked: ", IF item.marked THEN "true" ELSE "false", "\n">>
  \o (IF settings.enableNoteLocking THEN LockLine ELSE <<>>)
  \o <<"---", "\n", "\n">>

(***************************************************************************)
(* The template (templateUtils.ts).  settings.template is the text that     *)
(* getTemplateContents returns for settings.templateFile.                   *)
(***************************************************************************)
DEFAULT_TEMPLATE ==
  << "# ", "{{Title}}", "\n", "\n",
     "[Visit Original Source](", "{{URL}}", ")", "\n", "\n",
     "## Description", "\n", "\n",
     "{{Description}}", "\n", "\n",
     "![Cover Image](", "{{Cover}}", ")", "\n", "\n",
     "## Notes", "\n", "\n",
     "{{UserNote}}" >>

\* text.replace(/{{Name}}/gi, value)
RECURSIVE ReplacePlaceholder(_, _, _)
ReplacePlaceholder(text, name, value) ==
  IF text = <<>> THEN <<>>
  ELSE (IF toLowerCase(Head(text)) = name THEN value ELSE <<Head(text)>>)
       \o ReplacePlaceholder(Tail(text), name, value)

\* item.attributes.find(attr => attr.key.toUpperCase() === KEY), its value
FindAttribute(attributes, upperKey) ==
  IF \E i \in 1..Len(attributes) : toUpperCase(attributes[i].key) = upperKey
  THEN attributes[CHOOSE i \in 1..Len(attributes) :
                    /\ toUpperCase(attributes[i].key) = upperKey
                    /\ \A j \in 1..(i - 1) :
                         toUpperCase(attributes[j].key) # upperKey].value
  ELSE <<>>

\* The generic placeholders {{ATTR:key}}: an atom made of an opening in any
\* case, a key of word characters and the closing braces.
AttrOpenings == {"{{ATTR:", "{{attr:", "{{Attr:"}
AttrKeys == {"k", "K", "m", "M"}

IsAttr(atom) ==
  \E open \in AttrOpenings : \E key \in AttrKeys : atom = open \o key \o "}}"

\* match[1] of /{{ATTR:([\w_]+)}}/gi on the atom
AttrKeyOf(atom) ==
  CHOOSE key \in AttrKeys : \E open \in AttrOpenings : atom = open \o key \o "}}"

\* the number of characters of an atom, and the index of the first
\* character of atom k in the text (0-based)
AtomLen(atom) == IF atom = NUL THEN 1 ELSE Len(atom)

RECURSIVE CharIndex(_, _)
CharIndex(text, k) ==
  IF k <= 1 THEN 0 ELSE CharIndex(text, k - 1) + AtomLen(text[k - 1])

\* result.replace(new RegExp(`{{ATTR:${key}}}`, 'gi'), value)
RECURSIVE ReplaceAttr(_, _, _)
ReplaceAttr(text, key, value) ==
  IF text = <<>> THEN <<>>
  ELSE (IF IsAttr(Head(text)) /\ toLowerCase(AttrKeyOf(Head(text))) = toLowerCase(key)
        THEN value ELSE <<Head(text)>>)
       \o ReplaceAttr(Tail(text), key, value)

\* 80-89: while ((match = attrRegex.exec(result)) !== null) { ... }; the
\* regex is global, so each exec searches the current text from lastIndex,
\* the end of the previous match in the previous text
RECURSIVE AttrLoop(_, _, _)
AttrLoop(result, lastIndex, attributes) ==
  LET hits == {k \in 1..Len(result) :
                 IsAttr(result[k]) /\ CharIndex(result, k) >= lastIndex}
  IN  IF hits = {} THEN result
      ELSE LET k == CHOOSE h \in hits : \A g \in hits : h <= g
               key == AttrKeyOf(result[k])
           IN  AttrLoop(ReplaceAttr(result, key,
                                    FindAttribute(attributes, toUpperCase(key))),
                        CharIndex(result, k) + AtomLen(result[k]), attributes)

\* 101: result.replace(/{{ATTR:[\w_]+}}/gi, "")
RemoveAttrs(text) == SelectSeq(text, LAMBDA atom : ~IsAttr(atom))

\* applyTemplateTransformations (38-105)
applyTemplateTransformations(rawTemplate, item, list) ==
  LET r1 == ReplacePlaceholder(rawTemplate, "{{title}}", item.title)
      r2 == ReplacePlaceholder(r1, "{{url}}", item.url)
      r3 == ReplacePlaceholder(r2, "{{type}}", <<item.type>>)
      r4 == ReplacePlaceholder(r3, "{{dateadded}}", item.dateAdded)
      r5 == ReplacePlaceholder(r4, "{{listtitle}}", list.title)
      r6 == ReplacePlaceholder(r5, "{{listtype}}", <<list.type>>)
      r7 == ReplacePlaceholder(r6, "{{create}}", list.create)
      r8 == ReplacePlaceholder(r7, "{{update}}", list.update)
      a == item.attributes
      r9 == ReplacePlaceholder(r8, "{{description}}", FindAttribute(a, "DESCRIPTION"))
      r10 == ReplacePlaceholder(r9, "{{cover}}", FindAttribute(a, "COVER"))
      r11 == ReplacePlaceholder(r10, "{{usernote}}", FindAttribute(a, "USER_NOTE"))
      r12 == ReplacePlaceholder(r11, "{{author}}", FindAttribute(a, "AUTHOR"))
      r13 == ReplacePlaceholder(r12, "{{genre}}", FindAttribute(a, "GENRE"))
      r14 == ReplacePlaceholder(r13, "{{rating}}", FindAttribute(a, "RATING"))
      r15 == ReplacePlaceholder(r14, "{{date}}", FindAttribute(a, "DATE"))
      r16 == ReplacePlaceholder(r15, "{{price}}", FindAttribute(a, "PRICE"))
  IN  Trim(IF Len(a) > 0 THEN AttrLoop(r16, 0, a) ELSE RemoveAttrs(r16))

(***************************************************************************)
(* generateItemContent (732-753).                                           *)
(***************************************************************************)
\* sanitizedItem.title
BodyTitle(title) ==
  LET maxLength == settings.maxTitleLength
      cut == Substring0(sanitizeFileName(title), maxLength)
  IN  IF Len(cut) = maxLength
      THEN Substring0(cut, maxLength - EllipsisLength) \o <<".", ".", ".">>
      ELSE cut

\* the attributes after the loop that rewrites every description value
ProcessedAttributes(attributes) ==
  [i \in 1..Len(attributes) |->
     IF toLowerCase(attributes[i].key) = "description"
     THEN [attributes[i] EXCEPT !.value = processDescription(@)]
     ELSE attributes[i]]

generateItemContent(item, list) ==
  LET sanitizedItem ==
        [item EXCEPT !.title = BodyTitle(item.title),
                     !.attributes = ProcessedAttributes(item.attributes)]
  IN  applyTemplateTransformations(settings.template, sanitizedItem, list)

(***************************************************************************)
(* Markers and tokens.                                                      *)
(***************************************************************************)
startBlockMarker(itemId) == "%%START-" \o itemId \o "%%"
endBlockMarker(itemId) == "%%END-" \o itemId \o "%%"
startContentMarker(itemId) == "%%START-EXTRACTED-CONTENT-" \o itemId \o "%%"
endContentMarker(itemId) == "%%END-EXTRACTED-CONTENT-" \o itemId \o "%%"

\* the tokens uuidv4() returns, in the order it returns them
Uuid(n) == <<"0a", "0b", "0c", "0d", "0e", "0f", "1a", "1b">>[n]
Uuids == {Uuid(n) : n \in 1..(MaxUuid + 1)}

\* a token that some other text carries; it matches [0-9a-f-]+ as well
ForeignId == "ab"
HexIds == Uuids \cup {ForeignId}

\* JavaScript null: as an itemId, and as the content of a file never read
Null == "null"
NullContent == <<"<null>">>

\* content.indexOf(atom), 0-based, -1 when absent
indexOf(content, atom) ==
  IF \E i \in 1..Len(content) : content[i] = atom
  THEN (CHOOSE i \in 1..Len(content) :
          content[i] = atom /\ \A j \in 1..(i - 1) : content[j] # atom) - 1
  ELSE -1

includes(content, atom) == indexOf(content, atom) # -1

\* content.substring(from, to): bounds clamped to 0..length, then ordered
substring(content, from, to) ==
  LET clamp(n) == IF n < 0 THEN 0 ELSE IF n > Len(content) THEN Len(content) ELSE n
      lo == IF clamp(from) <= clamp(to) THEN clamp(from) ELSE clamp(to)
      hi == IF clamp(from) <= clamp(to) THEN clamp(to) ELSE clamp(from)
  IN  SubSeq(content, lo + 1, hi)

\* the capture of the first match of /%%START-(<id>)%%/, id drawn from ids
FirstCapture(content, ids) ==
  LET matches(atom) == \E id \in ids : atom = startBlockMarker(id)
  IN  IF \E i \in 1..Len(content) : matches(content[i])
      THEN LET i == CHOOSE j \in 1..Len(content) :
                      /\ matches(content[j])
                      /\ \A k \in 1..(j - 1) : ~matches(content[k])
           IN  CHOOSE id \in ids : content[i] = startBlockMarker(id)
      ELSE Null

\* the tokens of the model that [0-9-]+ matches: the class without a-f
DigitIds == {id \in HexIds : id = "00"}

extractItemIdDigitsOnly(content) == FirstCapture(content, DigitIds)

\* extractItemId (565-571): the capture of the first /%%START-([0-9a-f-]+)%%/
extractItemId(content) == FirstCapture(content, HexIds)

(***************************************************************************)
(* generateNoteContent (534-560) and updateExistingNote (576-625).          *)
(* uuid is the token uuidv4() returns if the call reaches it.               *)
(***************************************************************************)
Placeholder == <<USER_COMMENT_PLACEHOLDER, "\n", "\n">>

NewNote(item, list, uuid) ==
  generateFrontmatter(item, list)
  \o <<startBlockMarker(uuid), "\n", "\n">>
  \o Placeholder
  \o <<startContentMarker(uuid), "\n", "\n">>
  \o generateItemContent(item, list)
  \o <<"\n", "\n", endContentMarker(uuid), "\n", "\n">>
  \o Placeholder
  \o <<endBlockMarker(uuid), "\n">>

\* the test without the outer-end marker
MarkersCompleteNoEndCheck(existingContent, itemId) ==
  /\ includes(existingContent, startBlockMarker(itemId))
  /\ includes(existingContent, startContentMarker(itemId))
  /\ includes(existingContent, endContentMarker(itemId))

MarkersComplete(existingContent, itemId) ==
  /\ includes(existingContent, startBlockMarker(itemId))
  /\ includes(existingContent, endBlockMarker(itemId))
  /\ includes(existingContent, startContentMarker(itemId))
  /\ includes(existingContent, endContentMarker(itemId))

\* the update that keeps the token but lays the comment zones out anew
updateExistingNoteFreshZones(item, list, existingContent, itemId, uuid) ==
  IF ~MarkersComplete(existingContent, itemId)
  THEN NewNote(item, list, uuid)
  ELSE NewNote(item, list, itemId)

\* the update that leaves a note with all its markers as it is
updateExistingNoteKeepPrior(item, list, existingContent, itemId, uuid) ==
  IF ~MarkersComplete(existingContent, itemId)
  THEN NewNote(item, list, uuid)
  ELSE existingContent

\* the update of a note with all its markers that keeps what the note
\* holds after its outer-end marker
updateExistingNoteKeepTail(item, list, existingContent, itemId, uuid) ==
  IF ~MarkersComplete(existingContent, itemId)
  THEN NewNote(item, list, uuid)
  ELSE generateFrontmatter(item, list)
       \o SubSeq(existingContent,
                 indexOf(existingContent, startBlockMarker(itemId)) + 1,
                 indexOf(existingContent, startContentMarker(itemId)) + 1)
       \o <<"\n", "\n">> \o generateItemContent(item, list) \o <<"\n", "\n">>
       \o SubSeq(existingContent,
                 indexOf(existingContent, endContentMarker(itemId)) + 1,
                 Len(existingContent))

updateExistingNote(item, list, existingContent, itemId, uuid) ==
  IF ~MarkersComplete(existingContent, itemId)
  THEN NewNote(item, list, uuid)
  ELSE
    LET frontmatter == generateFrontmatter(item, list)
        newItemContent == generateItemContent(item, list)
        startContentIndex == indexOf(existingContent, startContentMarker(itemId))
        endContentIndex == indexOf(existingContent, endContentMarker(itemId))
        blockStartIndex == indexOf(existingContent, startBlockMarker(itemId))
        blockEndIndex == indexOf(existingContent, endBlockMarker(itemId)) + 1
        beforeContent ==
          substring(existingContent, blockStartIndex + 1, startContentIndex)
        afterContent ==
          substring(existingContent, endContentIndex + 1, blockEndIndex - 1)
    IN  IF startContentIndex = -1 \/ endContentIndex = -1
        THEN NewNote(item, list, uuid)
        ELSE frontmatter
             \o <<startBlockMarker(itemId)>> \o beforeContent
             \o <<startContentMarker(itemId), "\n", "\n">>
             \o newItemContent
             \o <<"\n", "\n", endContentMarker(itemId)>> \o afterContent
             \o <<endBlockMarker(itemId), "\n">>

\* existingContent is truthy: read, and not the empty string
Truthy(existingContent) ==
  existingContent # NullContent /\ existingContent # <<>>

\* every note made as a first-time note, whatever the file holds
generateNoteContentFresh(item, list, existingContent, uuid) ==
  NewNote(item, list, uuid)

generateNoteContent(item, list, existingContent, uuid) ==
  IF Truthy(existingContent) /\ extractItemId(existingContent) # Null
  THEN updateExistingNote(item, list, existingContent,
                          extractItemId(existingContent), uuid)
  ELSE NewNote(item, list, uuid)

\* no token is ever minted: uuidv4 keeps returning the same value
MintsUuidNever(existingContent) == FALSE

\* whether the call above consumed uuid
MintsUuid(existingContent) ==
  ~(/\ Truthy(existingContent)
    /\ extractItemId(existingContent) # Null
    /\ MarkersComplete(existingContent, extractItemId(existingContent)))

(***************************************************************************)
(* The lock test /^lock:\s*true/m (507-513 and 811-817).                    *)
(***************************************************************************)
LineTerminators == {"\n", "\r"}

RECURSIVE SkipWhitespace(_, _)
SkipWhitespace(content, i) ==
  IF i <= Len(content) /\ content[i] \in Whitespace
  THEN SkipWhitespace(content, i + 1)
  ELSE i

\* the same test without the m flag: ^ matches at the start of the text only
lockMatchFirstLine(content) ==
  /\ Len(content) > 0
  /\ content[1] = "lock:"
  /\ LET j == SkipWhitespace(content, 2)
     IN  j <= Len(content) /\ content[j] = "true"

lockMatch(content) ==
  \E i \in 1..Len(content) :
    /\ content[i] = "lock:"
    /\ i = 1 \/ content[i - 1] \in LineTerminators
    /\ LET j == SkipWhitespace(content, i + 1)
       IN  j <= Len(content) /\ content[j] = "true"

(***************************************************************************)
(* createConsolidatedToDoList (802-859), the text it builds.                *)
(***************************************************************************)
Checked == "- [x] "
Unchecked == "- [ ] "

\* the matches of /- \[([ x])\] (.*?)$/gm in order: <<isChecked, taskName>>
RECURSIVE TaskMatches(_)
TaskMatches(content) ==
  IF content = <<>> THEN <<>>
  ELSE IF Head(content) \in {Checked, Unchecked}
       THEN LET rest == Tail(content)
                stop == IF \E i \in 1..Len(rest) : rest[i] \in LineTerminators
                        THEN CHOOSE i \in 1..Len(rest) :
                               /\ rest[i] \in LineTerminators
                               /\ \A j \in 1..(i - 1) : rest[j] \notin LineTerminators
                        ELSE Len(rest) + 1
            IN  <<<<Head(content) = Checked, SubSeq(rest, 1, stop - 1)>>>>
                \o TaskMatches(SubSeq(rest, stop, Len(rest)))
       ELSE TaskMatches(Tail(content))

\* existingTasks after the loop of existingTasks.set(taskName, isChecked)
RECURSIVE TasksMapOf(_)
TasksMapOf(matches) ==
  IF matches = <<>> THEN <<>>
  ELSE LET n == Len(matches)
       IN  MapSet(TasksMapOf(SubSeq(matches, 1, n - 1)), matches[n][2], matches[n][1])

\* no line of the prior note is looked at
existingTasksOfNone(existingContent) == <<>>

existingTasksOf(existingContent) ==
  IF existingContent = NullContent THEN <<>>
  ELSE TasksMapOf(TaskMatches(existingContent))

isCompletedMarkedOnly(item, existingTasks) == item.marked

isCompleted(item, existingTasks) ==
  item.marked \/ (MapHas(existingTasks, item.title) /\ MapGet(existingTasks, item.title))

RECURSIVE TaskLines(_, _)
TaskLines(items, existingTasks) ==
  IF items = <<>> THEN <<>>
  ELSE <<IF isCompleted(Head(items), existingTasks) THEN Checked ELSE Unchecked>>
       \o Head(items).title \o <<"\n">>
       \o TaskLines(Tail(items), existingTasks)

\* listId: existingContent ? this.extractItemId(existingContent) : uuidv4()
ListIdOf(existingContent, uuid) ==
  IF Truthy(existingContent) THEN extractItemId(existingContent) ELSE uuid

ToDoContent(list, existingContent, uuid) ==
  LET listId == ListIdOf(existingContent, uuid)
  IN  <<"---", "\n", "source: listy", "\n", "type: todo", "\n">>
      \o QuotedScalar("list", list.title)
      \o <<"create: ">> \o list.create \o <<"\n">>
      \o <<"update: ">> \o list.update \o <<"\n">>
      \o <<"---", "\n", "\n">>
      \o <<"# ">> \o list.title \o <<"\n", "\n">>
      \o <<startBlockMarker(listId), "\n", "\n">>
      \o Placeholder
      \o <<startContentMarker(listId), "\n", "\n">>
      \o TaskLines(list.items, existingTasksOf(existingContent))
      \o <<"\n", endContentMarker(listId), "\n", "\n">>
      \o Placeholder
      \o <<endBlockMarker(listId), "\n">>

(***************************************************************************)
(* Paths and the storage collaborator (this.app.vault.adapter).             *)
(***************************************************************************)
\* normalizePath of obsidian: runs of "/" collapse, none at either end
RECURSIVE CollapseSlashes(_)
CollapseSlashes(path) ==
  IF Len(path) < 2 THEN path
  ELSE IF path[1] = "/" /\ path[2] = "/" THEN CollapseSlashes(Tail(path))
       ELSE <<Head(path)>> \o CollapseSlashes(Tail(path))

normalizePath(path) ==
  LET c == CollapseSlashes(path)
      d == IF c # <<>> /\ Head(c) = "/" THEN Tail(c) ELSE c
  IN  IF d # <<>> /\ d[Len(d)] = "/" THEN SubSeq(d, 1, Len(d) - 1) ELSE d

listFolderPathOf(list) ==
  normalizePath(settings.outputFolder \o <<"/">> \o sanitizeFileName(list.title))

notePathOf(list, item) ==
  normalizePath(listFolderPathOf(list) \o <<"/">> \o sanitizeFileName(item.title)
                \o <<".md">>)

listPathOf(list, folderPath) ==
  normalizePath(folderPath \o <<"/">> \o sanitizeFileName(list.title) \o <<".md">>)

NoReply == [ok |-> FALSE, found |-> FALSE, content |-> <<"<pending>">>]

Op(kind, path, content, l, i) ==
  [op |-> kind, path |-> path, content |-> content, li |-> l, ii |-> i]

Event(ev, o, content) ==
  [ev |-> ev, op |-> o.op, path |-> o.path, li |-> o.li, ii |-> o.ii,
   content |-> content]

FileExists(path) == path \in DOMAIN vault

WriteFile(files, path, content) ==
  [q \in (DOMAIN files) \cup {path} |-> IF q = path THEN content ELSE files[q]]

(***************************************************************************)
(* Inputs: lists and items of a Listy export.                               *)
(***************************************************************************)
List(title, type, items) ==
  [ title |-> title, type |-> type, create |-> <<"1">>, update |-> <<"2">>,
    items |-> items ]

PlainItem ==
  [ title |-> <<"a">>, type |-> "Books", url |-> <<>>,
    dateAdded |-> <<"2", "4">>, marked |-> FALSE, attributes |-> <<>> ]


\* what the dialog has got back from processListyData
NoOutcome == [kind |-> "none", count |-> 0]
Thrown == [kind |-> "error", count |-> 0]
Returned(n) == [kind |-> "count", count |-> n]

NoData == [shape |-> "none", lists |-> <<>>]

\* no Entry has been loaded for rendering
RenderIdle ==
  /\ entry = PlainItem
  /\ renders = <<>>

\* no import is running and none has run
BatchIdle ==
  /\ vault = <<>>
  /\ folders = {}
  /\ data = NoData
  /\ pc = "idle"
  /\ li = 0
  /\ ii = 0
  /\ totalNotesCreated = 0
  /\ pending = {}
  /\ reply = NoReply
  /\ outcome = NoOutcome
  /\ opLog = <<>>
  /\ vault0 = <<>>
  /\ batches = 0
  /\ edits = 0
  /\ failures = 0

(***************************************************************************)
(* What the user does to a note in the editor.                              *)
(***************************************************************************)
\* the four markers of id occur, the first of each in nested order
WellNested(content, id) ==
  /\ indexOf(content, startBlockMarker(id)) # -1
  /\ indexOf(content, startBlockMarker(id)) < indexOf(content, startContentMarker(id))
  /\ indexOf(content, startContentMarker(id)) < indexOf(content, endContentMarker(id))
  /\ indexOf(content, endContentMarker(id)) < indexOf(content, endBlockMarker(id))

\* the text strictly between two markers of a well-nested note
Between(content, from, to) ==
  SubSeq(content, indexOf(content, from) + 2, indexOf(content, to))

ZoneA(content, id) == Between(content, startBlockMarker(id), startContentMarker(id))
ZoneB(content, id) == Between(content, endContentMarker(id), endBlockMarker(id))

\* the note with the text of its two comment zones replaced by a and b
SetZones(content, id, a, b) ==
  SubSeq(content, 1, indexOf(content, startBlockMarker(id)) + 1)
  \o a
  \o SubSeq(content, indexOf(content, startContentMarker(id)) + 1,
            indexOf(content, endContentMarker(id)) + 1)
  \o b
  \o SubSeq(content, indexOf(content, endBlockMarker(id)) + 1, Len(content))

\* the lock property set to true: the value of the lock line changed, or a
\* lock line added under the opening line of the header
SetLock(content) ==
  IF \E i \in 1..(Len(content) - 2) :
       content[i] = "lock:" /\ content[i + 1] = " " /\ content[i + 2] = "false"
  THEN [i \in 1..Len(content) |->
          IF i > 2 /\ content[i - 2] = "lock:" /\ content[i] = "false"
          THEN "true" ELSE content[i]]
  ELSE SubSeq(content, 1, 2) \o <<"lock:", " ", "true", "\n">>
       \o SubSeq(content, 3, Len(content))

(***************************************************************************)
(* SpecFile: sanitizeFileName applied to bounded inputs.                    *)
(***************************************************************************)
FileAlphabet == ForbiddenChars \cup {".", " ", "a", "_"}

RECURSIVE SeqsUpTo(_, _)
SeqsUpTo(S, n) ==
  IF n = 0 THEN {<<>>}
  ELSE LET shorter == SeqsUpTo(S, n - 1)
       IN  shorter \cup {Append(s, c) : s \in shorter, c \in S}

TitleLengths ==
  {MinTitleLength + TitleLengthStep * i : i \in 0..(NumTitleLengths - 1)}

FileInputs ==
  {p \o Repeat("a", k) \o q :
     p \in SeqsUpTo(FileAlphabet, MaxPrefix),
     k \in 0..MaxPad,
     q \in {<<>>, <<" ">>, <<".">>}}

DefaultSettings ==
  [ outputFolder |-> <<"L", "i", "s", "t", "y">>,
    consolidateToDoLists |-> TRUE,
    includeTags |-> FALSE,
    tagReplacement |-> <<>>,
    enableNoteLocking |-> FALSE,
    template |-> DEFAULT_TEMPLATE,
    maxTitleLength |-> DefaultMaxTitleLength ]

FileInit ==
  /\ fileName \in FileInputs
  /\ \E n \in TitleLengths : settings = [DefaultSettings EXCEPT !.maxTitleLength = n]
  /\ sanitized = NotCalled
  /\ mLog = <<>>
  /\ nextUuid = 1
  /\ BatchIdle
  /\ RenderIdle

CallSanitize ==
  /\ sanitized = NotCalled
  /\ sanitized' = sanitizeFileName(fileName)
  /\ UNCHANGED <<settings, fileName, mergeVars, nextUuid, batchVars, renderVars>>

FileNext == CallSanitize

SpecFile == FileInit /\ [][FileNext]_vars

(***************************************************************************)
(* SpecRender: generateFrontmatter and generateItemContent applied to one   *)
(* Entry in memory, under bounded templates and settings.                   *)
(***************************************************************************)
TemplateAlphabet ==
  {"x", "{{Title}}", "{{author}}", "{{ATTR:k}}", "{{attr:K}}", "{{ATTR:m}}"}

RenderTemplates ==
  {DEFAULT_TEMPLATE} \cup (SeqsUpTo(TemplateAlphabet, MaxTemplateLen) \ {<<>>})

RenderSettings ==
  {[DefaultSettings EXCEPT !.template = t, !.maxTitleLength = n,
                           !.tagReplacement = r] :
     t \in RenderTemplates, n \in TitleLengths, r \in {<<>>, <<"\\", "#">>}}

Reading == List(<<"R", "e", "a", "d", "i", "n", "g">>, "Books", <<>>)

Attr(key, value) == [key |-> key, value |-> value]

Orwell ==
  [ title |-> <<"1", "9", "8", "4">>, type |-> "Books", url |-> <<"http://x">>,
    dateAdded |-> <<"2", "4">>, marked |-> FALSE,
    attributes |-> <<Attr("AUTHOR", <<"O", "r", "w", "e", "l", "l">>)>> ]

RenderItems ==
  { Orwell,
    [PlainItem EXCEPT !.title = Repeat("a", MinTitleLength - 1)],
    [PlainItem EXCEPT !.title = Repeat("a", MinTitleLength),
                      !.attributes = <<Attr("k", <<"v">>)>>],
    [PlainItem EXCEPT !.title = Repeat("a", MinTitleLength + 1),
                      !.attributes = <<Attr("DESCRIPTION", <<"a", "#", "b">>)>>],
    [PlainItem EXCEPT !.attributes = <<Attr("K", Repeat("v", 12))>>],
    [PlainItem EXCEPT !.attributes = <<Attr("TYPE", <<"x">>)>>],
    [PlainItem EXCEPT !.marked = TRUE,
                      !.attributes = <<Attr("m", <<"w">>), Attr("k", <<"v">>)>>],
    [PlainItem EXCEPT !.attributes = <<Attr("k", <<"v">>), Attr("m", <<"w">>),
                                       Attr("K", <<"u">>)>>],
    [PlainItem EXCEPT !.attributes = <<Attr("icon", <<"i">>), Attr("m", <<"w">>),
                                       Attr("Author", <<"o">>),
                                       Attr("AUTHOR", <<"p">>)>>] }

RenderInit ==
  /\ settings \in RenderSettings
  /\ entry \in RenderItems
  /\ renders = <<>>
  /\ fileName = <<>>
  /\ sanitized = NotCalled
  /\ mLog = <<>>
  /\ nextUuid = 1
  /\ BatchIdle

\* generateFrontmatter(item, list) and then generateItemContent(item, list),
\* as generateNoteContent and updateExistingNote call them on one item;
\* generateItemContent copies the item shallowly ({ ...item }), so that the
\* loop over sanitizedItem.attributes assigns to the attributes of the item
Render ==
  /\ Len(renders) < MaxRenders
  /\ renders' = Append(renders, [header |-> generateFrontmatter(entry, Reading),
                                 body |-> generateItemContent(entry, Reading)])
  /\ entry' = [entry EXCEPT !.attributes = ProcessedAttributes(@)]
  /\ UNCHANGED <<settings, fileVars, mergeVars, nextUuid, batchVars>>

RenderNext == Render

SpecRender == RenderInit /\ [][RenderNext]_vars

\* C7: for every title and every configured maximum length the derived
\* filename is defined, holds none of / \ : * ? " < > | = NUL #, does not
\* start with '.', and is at most the configured maximum long.
FilenamePurity ==
  sanitized # NotCalled =>
    /\ sanitized \in Seq(FileAlphabet \cup {"-", "'"})
    /\ \A i \in 1..Len(sanitized) : sanitized[i] \notin ForbiddenChars
    /\ (sanitized # <<>> => sanitized[1] # ".")
    /\ Len(sanitized) <= settings.maxTitleLength

\* a name that loses a deleted character, gains the '_' prefix and is cut
FilenamePurityWitness ==
  /\ sanitized # NotCalled
  /\ Len(fileName) > settings.maxTitleLength + 1
  /\ fileName[1] = "#"
  /\ fileName[2] = "."
  /\ sanitized[1] = "_"
  /\ Len(sanitized) = settings.maxTitleLength
  /\ sanitized[settings.maxTitleLength] = "."

(***************************************************************************)
(* SpecMerge: the merge engine applied to one stored document.  mLog[1] is  *)
(* what the file holds before the first call; every later entry is one     *)
(* call of generateNoteContent, or one edit of the file by the user, with  *)
(* the text the file holds afterwards and the token of its markers.        *)
(***************************************************************************)
MergeList == List(<<"R">>, "Books", <<>>)

MergeItems ==
  { PlainItem,
    [PlainItem EXCEPT !.title = <<"b">>],
    [PlainItem EXCEPT !.url = <<startBlockMarker(ForeignId)>>],
    [PlainItem EXCEPT !.title = <<"b">>, !.url = <<"u">>, !.marked = TRUE],
    [PlainItem EXCEPT !.attributes =
       << [key |-> "DESCRIPTION", value |-> <<"d", "#">>],
          [key |-> "Author", value |-> <<"o">>] >>] }

CustomTemplate == <<"{{title}}", " ", "{{Author}}", "\n", "{{ListTitle}}">>

MergeSettings ==
  { DefaultSettings,
    [DefaultSettings EXCEPT !.enableNoteLocking = TRUE,
                            !.template = CustomTemplate] }

\* a note in which the user has put a copy of the content-end marker into
\* the first comment zone
CopiedMarkerDoc ==
  << startBlockMarker(ForeignId), "x", endContentMarker(ForeignId),
     startContentMarker(ForeignId), "\n", "\n", "old", "\n", "\n",
     endContentMarker(ForeignId), "y", endBlockMarker(ForeignId), "\n" >>

\* what the file may hold before the first import
PriorDocs ==
  { NullContent,
    <<>>,
    <<"x", "\n">>,
    <<startBlockMarker(ForeignId), "x", endBlockMarker(ForeignId), "\n">>,
    CopiedMarkerDoc }

\* what the user may type into the two comment zones of a note with token id
InjectPairs(id) ==
  { <<<<"\n", "x", "\n">>, <<"\n", "y", "\n">>>>,
    <<<<>>, <<"y">>>>,
    <<<<"x", startContentMarker(id), "\n">>, <<"\n", "y">>>>,
    <<<<"x">>, <<"y", endBlockMarker(id), "\n">>>> }

NoItem == [PlainItem EXCEPT !.title = <<>>]

LogEntry(op, item, id, a, b, content) ==
  [op |-> op, item |-> item, id |-> id, a |-> a, b |-> b, content |-> content]

Last == mLog[Len(mLog)]

\* the note as the engine lays it out around the two comment zones
Compose(frontmatter, id, a, body, b) ==
  frontmatter \o <<startBlockMarker(id)>> \o a
  \o <<startContentMarker(id), "\n", "\n">> \o body
  \o <<"\n", "\n", endContentMarker(id)>> \o b \o <<endBlockMarker(id), "\n">>

MergeInit ==
  /\ settings \in MergeSettings
  /\ \E d \in PriorDocs : mLog = <<LogEntry("prior", NoItem, Null, <<>>, <<>>, d)>>
  /\ nextUuid = 1
  /\ fileName = <<>>
  /\ sanitized = NotCalled
  /\ BatchIdle
  /\ RenderIdle

\* one import of item into the file
Merge(item) ==
  /\ Len(mLog) <= MaxCalls
  /\ nextUuid <= MaxUuid
  /\ LET existingContent == Last.content
         uuid == Uuid(nextUuid)
         minted == MintsUuid(existingContent)
         id == IF minted THEN uuid ELSE extractItemId(existingContent)
         result == generateNoteContent(item, MergeList, existingContent, uuid)
     IN  /\ mLog' = Append(mLog, LogEntry("merge", item, id, <<>>, <<>>, result))
         /\ nextUuid' = IF minted THEN nextUuid + 1 ELSE nextUuid
  /\ UNCHANGED <<settings, fileVars, renderVars, batchVars>>

\* the user replaces the text of both comment zones of an engine-made note
Inject(a, b) ==
  /\ Len(mLog) <= MaxCalls
  /\ Last.op = "merge"
  /\ <<a, b>> \in InjectPairs(Last.id)
  /\ WellNested(Last.content, Last.id)
  /\ mLog' = Append(mLog, LogEntry("inject", Last.item, Last.id, a, b,
                                  SetZones(Last.content, Last.id, a, b)))
  /\ UNCHANGED <<settings, fileVars, renderVars, nextUuid, batchVars>>

\* the user deletes one of the four markers of an engine-made note
Damage(marker) ==
  /\ Len(mLog) <= MaxCalls
  /\ Last.op = "merge"
  /\ marker \in { startBlockMarker(Last.id), endBlockMarker(Last.id),
                  startContentMarker(Last.id), endContentMarker(Last.id) }
  /\ mLog' = Append(mLog, LogEntry("damage", Last.item, Last.id, <<>>, <<>>,
                                  SelectSeq(Last.content, LAMBDA c : c # marker)))
  /\ UNCHANGED <<settings, fileVars, renderVars, nextUuid, batchVars>>

\* what the user may type before the outer-start marker, into the machine
\* content and after the outer-end marker
ScribbleTexts ==
  { <<<<"<before>">>, <<"<inside>">>, <<"<after>">>>>,
    <<<<"<before>", "\n">>, <<>>, <<endBlockMarker(ForeignId), "<after>">>>> }

\* the user types outside the two comment zones of an engine-made note
Scribble(before, inside, after) ==
  /\ Len(mLog) <= MaxCalls
  /\ Last.op = "merge"
  /\ WellNested(Last.content, Last.id)
  /\ LET c == Last.content
         s == indexOf(c, startBlockMarker(Last.id))
         k == indexOf(c, startContentMarker(Last.id))
     IN  mLog' = Append(mLog, LogEntry("scribble", Last.item, Last.id, <<>>, <<>>,
                                      SubSeq(c, 1, s) \o before
                                      \o SubSeq(c, s + 1, k + 1) \o inside
                                      \o SubSeq(c, k + 2, Len(c)) \o after))
  /\ UNCHANGED <<settings, fileVars, renderVars, nextUuid, batchVars>>

MarkerKinds == {"%%START-", "%%END-", "%%START-EXTRACTED-CONTENT-", "%%END-EXTRACTED-CONTENT-"}

MergeNext ==
  \/ \E item \in MergeItems : Merge(item)
  \/ \E id \in HexIds : \E p \in InjectPairs(id) : Inject(p[1], p[2])
  \/ \E id \in HexIds : \E k \in MarkerKinds : Damage(k \o id \o "%%")
  \/ \E t \in ScribbleTexts : Scribble(t[1], t[2], t[3])

SpecMerge == MergeInit /\ [][MergeNext]_vars

\* x occurs in text as a run of consecutive atoms
IsInfix(x, text) ==
  \E i \in 0..(Len(text) - Len(x)) : SubSeq(text, i + 1, i + Len(x)) = x

\* the file lacks at least one of the four markers of id
LacksMarker(content, id) ==
  \E marker \in { startBlockMarker(id), endBlockMarker(id),
                  startContentMarker(id), endContentMarker(id) } :
    \A i \in 1..Len(content) : content[i] # marker

\* the tokens whose markers occur in a text
TokensIn(content) ==
  {id \in HexIds : \E k \in MarkerKinds : \E i \in 1..Len(content) :
     content[i] = k \o id \o "%%"}

NoOwnMarker(text, id) ==
  \A i \in 1..Len(text) :
    text[i] \notin { startBlockMarker(id), endBlockMarker(id),
                     startContentMarker(id), endContentMarker(id) }

\* the header rendered for item holds no text of the form %%START-<hex>%%
CleanHeader(item) ==
  \A i \in 1..Len(generateFrontmatter(item, MergeList)) :
    \A id \in HexIds : generateFrontmatter(item, MergeList)[i] # startBlockMarker(id)

FallbackCorrectness ==
  LET n == Len(mLog)
  IN  ( /\ n >= 2
        /\ mLog[n].op = "merge"
        /\ mLog[n - 1].content # NullContent
        /\ \/ extractItemId(mLog[n - 1].content) = Null
           \/ LacksMarker(mLog[n - 1].content, extractItemId(mLog[n - 1].content)) )
      => /\ mLog[n].id \in Uuids
         /\ mLog[n].id \notin TokensIn(mLog[n - 1].content)
         /\ mLog[n].content =
              Compose(generateFrontmatter(mLog[n].item, MergeList), mLog[n].id,
                      <<"\n", "\n">> \o Placeholder,
                      generateItemContent(mLog[n].item, MergeList),
                      <<"\n", "\n">> \o Placeholder)

\* a note whose content-end marker the user deleted has been merged again
FallbackCorrectnessWitness ==
  /\ Len(mLog) = 4
  /\ mLog[2].op = "merge"
  /\ mLog[3].op = "damage"
  /\ mLog[4].op = "merge"
  /\ includes(mLog[3].content, startBlockMarker(mLog[2].id))
  /\ includes(mLog[3].content, endBlockMarker(mLog[2].id))
  /\ ~includes(mLog[3].content, endContentMarker(mLog[2].id))
  /\ mLog[4].id # mLog[2].id

(***************************************************************************)
(* Spec: processListyData (459-529) run by the import dialog against the    *)
(* vault.  One action is the code between two awaits; the storage performs  *)
(* an issued operation in a step of its own.                                *)
(***************************************************************************)
TaskItem(title, marked) == [PlainItem EXCEPT !.title = title, !.marked = marked,
                                             !.type = "Tasks"]

ListsOf(lists) == [shape |-> "array", lists |-> lists]

DataSets ==
  { [shape |-> "missing", lists |-> <<>>],
    [shape |-> "notArray", lists |-> <<>>],
    ListsOf(<<List(<<"R">>, "Books", <<PlainItem, [PlainItem EXCEPT !.title = <<"b">>]>>)>>),
    ListsOf(<<List(<<"T">>, "Tasks", <<TaskItem(<<"p">>, TRUE), TaskItem(<<"q">>, FALSE)>>)>>),
    ListsOf(<<List(<<"T">>, "Tasks", <<TaskItem(<<"p">>, TRUE), TaskItem(<<"r">>, FALSE)>>)>>),
    ListsOf(<<List(<<"T">>, "Tasks", <<TaskItem(<<"p">>, TRUE), TaskItem(<<"p">>, FALSE)>>)>>),
    ListsOf(<<List(<<"E">>, "Books", <<>>),
              List(<<"T">>, "Tasks", <<TaskItem(<<"p">>, FALSE)>>),
              List(<<"R">>, "tasks", <<PlainItem>>)>>) }

BatchSettings ==
  { [DefaultSettings EXCEPT !.consolidateToDoLists = c, !.enableNoteLocking = k] :
      c \in BOOLEAN, k \in BOOLEAN }

Stopped == pc \in {"idle", "done", "failed"}

\* the awaited operation has resolved
ResolvedUnawaited(p) == pc = p

Resolved(p) == pc = p /\ reply # NoReply

\* the running function reaches an await of operation o
Await(p, l, i, n, o, log) ==
  /\ pc' = p
  /\ li' = l
  /\ ii' = i
  /\ totalNotesCreated' = n
  /\ pending' = pending \cup {o}
  /\ reply' = NoReply
  /\ outcome' = NoOutcome
  /\ opLog' = Append(log, Event("issue", o, o.content))

\* if (!listyData.lists || !Array.isArray(listyData.lists))
InvalidMissingOnly(d) == d.shape = "missing"

Invalid(d) == d.shape # "array"

\* a list consolidated whatever the case of its type
shouldConsolidateAnyCase(list) ==
  toLowerCase(list.type) = "tasks" /\ settings.consolidateToDoLists

shouldConsolidate(list) == list.type = "Tasks" /\ settings.consolidateToDoLists

\* a loop over the lists that skips none
NextNonEmptyNone(lists, k) == k

RECURSIVE NextNonEmpty(_, _)
NextNonEmpty(lists, k) ==
  IF k > Len(lists) \/ Len(lists[k].items) > 0 THEN k
  ELSE NextNonEmpty(lists, k + 1)

\* the head of the loop over the lists, from list k on, with n notes counted
BeginList(lists, k, n, log) ==
  LET j == NextNonEmpty(lists, k)
  IN  IF j > Len(lists)
      THEN /\ pc' = "done"
           /\ li' = j
           /\ ii' = 0
           /\ totalNotesCreated' = n
           /\ pending' = pending
           /\ reply' = NoReply
           /\ outcome' = Returned(n)
           /\ opLog' = log
      ELSE IF shouldConsolidate(lists[j])
           THEN Await("todo_read", j, 0, n,
                      Op("read", listPathOf(lists[j], settings.outputFolder), <<>>, j, 0),
                      log)
           ELSE Await("exists_folder", j, 0, n,
                      Op("exists", listFolderPathOf(lists[j]), <<>>, j, 0), log)

\* the head of the loop over the items of list j, at item i
BeginItem(lists, j, i, n, log) ==
  IF i > Len(lists[j].items)
  THEN BeginList(lists, j + 1, n, log)
  ELSE Await("read", j, i, n,
             Op("read", notePathOf(lists[j], lists[j].items[i]), <<>>, j, i), log)

ItemCount(d) ==
  LET RECURSIVE Sum(_)
      Sum(k) == IF k = 0 THEN 0 ELSE Len(d.lists[k].items) + Sum(k - 1)
  IN  Sum(Len(d.lists))

\* continue in the loop over the items: on to the item after the current one
BreakItems(n) == BeginList(data.lists, li + 1, n, opLog)

ContinueItems(n) == BeginItem(data.lists, li, ii + 1, n, opLog)

\* the click on Import: processListyData up to its first await
StartImport(d) ==
  /\ Stopped
  /\ batches < MaxBatches
  /\ nextUuid + ItemCount(d) <= MaxUuid + 1
  /\ data' = d
  /\ batches' = batches + 1
  /\ vault0' = vault
  /\ IF Invalid(d)
     THEN /\ pc' = "failed"
          /\ outcome' = Thrown
          /\ li' = 0
          /\ ii' = 0
          /\ totalNotesCreated' = 0
          /\ pending' = {}
          /\ reply' = NoReply
          /\ opLog' = <<>>
     ELSE IF Len(settings.outputFolder) > 0
          THEN Await("exists_root", 0, 0, 0,
                     Op("exists", settings.outputFolder, <<>>, 0, 0), <<>>)
          ELSE BeginList(d.lists, 1, 0, <<>>)
  /\ UNCHANGED <<settings, nextUuid, fileVars, renderVars, mergeVars, vault, folders, edits,
                 failures>>

Perform(o, answer) ==
  /\ pending' = pending \ {o}
  /\ reply' = answer
  /\ opLog' = Append(opLog, Event(IF answer.ok \/ o.op = "read" THEN "done" ELSE "failed",
                                  o, answer.content))
  /\ UNCHANGED <<settings, nextUuid, fileVars, renderVars, mergeVars, data, pc, li, ii,
                 totalNotesCreated, outcome, vault0, batches, edits>>

\* adapter.read(path): the text, or a rejection when there is no such file
StorageRead ==
  \E o \in pending :
    /\ o.op = "read"
    /\ Perform(o, IF FileExists(o.path)
                  THEN [ok |-> TRUE, found |-> TRUE, content |-> vault[o.path]]
                  ELSE [ok |-> FALSE, found |-> FALSE, content |-> NullContent])
    /\ UNCHANGED <<vault, folders, failures>>

\* adapter.write(path, text): the file is created or overwritten
StorageWrite ==
  \E o \in pending :
    /\ o.op = "write"
    /\ vault' = WriteFile(vault, o.path, o.content)
    /\ Perform(o, [ok |-> TRUE, found |-> TRUE, content |-> o.content])
    /\ UNCHANGED <<folders, failures>>

\* what a rejected write or createFolder resolves to
Rejected == [ok |-> FALSE, found |-> FALSE, content |-> <<>>]

\* the promise of a write or a createFolder is rejected, nothing is stored
StorageRejects ==
  \E o \in pending :
    /\ o.op \in {"write", "createFolder"}
    /\ failures < MaxFailures
    /\ failures' = failures + 1
    /\ Perform(o, Rejected)
    /\ UNCHANGED <<vault, folders>>

\* the promise of the read of a file that exists is rejected (the file
\* cannot be read); the log keeps the text that was stored
StorageReadRejects ==
  \E o \in pending :
    /\ o.op = "read"
    /\ FileExists(o.path)
    /\ failures < MaxFailures
    /\ failures' = failures + 1
    /\ pending' = pending \ {o}
    /\ reply' = [ok |-> FALSE, found |-> FALSE, content |-> NullContent]
    /\ opLog' = Append(opLog, Event("failed", o, vault[o.path]))
    /\ UNCHANGED <<settings, nextUuid, fileVars, renderVars, mergeVars, data, pc, li, ii,
                   totalNotesCreated, outcome, vault0, batches, edits, vault, folders>>

\* adapter.exists(path)
StorageExists ==
  \E o \in pending :
    /\ o.op = "exists"
    /\ Perform(o, [ok |-> TRUE, found |-> o.path \in folders \/ FileExists(o.path),
                   content |-> <<>>])
    /\ UNCHANGED <<vault, folders, failures>>

\* vault.createFolder(path)
StorageCreateFolder ==
  \E o \in pending :
    /\ o.op = "createFolder"
    /\ folders' = folders \cup {o.path}
    /\ Perform(o, [ok |-> TRUE, found |-> TRUE, content |-> <<>>])
    /\ UNCHANGED <<vault, failures>>

Quiet == UNCHANGED <<settings, fileVars, renderVars, mergeVars, vault, folders, data, vault0,
                     batches, edits, failures>>

\* the rejection caught and dropped: the function returns its count so far
ThrowSwallowed ==
  /\ pc' = "done"
  /\ outcome' = Returned(totalNotesCreated)
  /\ reply' = NoReply
  /\ UNCHANGED <<li, ii, totalNotesCreated, pending, opLog>>

\* an awaited promise was rejected outside any try: processListyData rejects
Throw ==
  /\ pc' = "failed"
  /\ outcome' = Thrown
  /\ reply' = NoReply
  /\ UNCHANGED <<li, ii, totalNotesCreated, pending, opLog>>

\* 466-469: the output folder is created unless it exists
AfterExistsRoot ==
  /\ Resolved("exists_root")
  /\ IF ~reply.found
     THEN Await("create_root", 0, 0, 0,
                Op("createFolder", settings.outputFolder, <<>>, 0, 0), opLog)
     ELSE BeginList(data.lists, 1, 0, opLog)
  /\ UNCHANGED nextUuid
  /\ Quiet

AfterCreateRoot ==
  /\ Resolved("create_root")
  /\ IF reply.ok THEN BeginList(data.lists, 1, 0, opLog) ELSE Throw
  /\ UNCHANGED nextUuid
  /\ Quiet

\* 493-495: the folder of the list is created unless it exists
AfterExistsFolder ==
  /\ Resolved("exists_folder")
  /\ IF ~reply.found
     THEN Await("create_folder", li, 0, totalNotesCreated,
                Op("createFolder", listFolderPathOf(data.lists[li]), <<>>, li, 0),
                opLog)
     ELSE BeginItem(data.lists, li, 1, totalNotesCreated, opLog)
  /\ UNCHANGED nextUuid
  /\ Quiet

AfterCreateFolder ==
  /\ Resolved("create_folder")
  /\ IF reply.ok THEN BeginItem(data.lists, li, 1, totalNotesCreated, opLog) ELSE Throw
  /\ UNCHANGED nextUuid
  /\ Quiet

\* 502-523: the catch of a failed read, the lock test, the note rendered
\* from the item and the text read, the write issued
AfterRead ==
  /\ Resolved("read")
  /\ LET list == data.lists[li]
         item == list.items[ii]
         existingContent == IF reply.ok THEN reply.content ELSE NullContent
     IN  IF /\ settings.enableNoteLocking
            /\ Truthy(existingContent)
            /\ lockMatch(existingContent)
         THEN /\ ContinueItems(totalNotesCreated)
              /\ UNCHANGED nextUuid
         ELSE /\ Await("write", li, ii, totalNotesCreated,
                       Op("write", notePathOf(list, item),
                          generateNoteContent(item, list, existingContent,
                                              Uuid(nextUuid)), li, ii),
                       opLog)
              /\ nextUuid' = IF MintsUuid(existingContent)
                             THEN nextUuid + 1 ELSE nextUuid
  /\ Quiet

\* 523-525: the note is counted
AfterWrite ==
  /\ Resolved("write")
  /\ IF reply.ok
     THEN ContinueItems(totalNotesCreated + 1)
     ELSE Throw
  /\ UNCHANGED nextUuid
  /\ Quiet

\* 808-858 and 485: the to-do note of the list; a locked note makes
\* createConsolidatedToDoList return, and its caller counts the list
AfterToDoRead ==
  /\ Resolved("todo_read")
  /\ LET list == data.lists[li]
         existingContent == IF reply.ok THEN reply.content ELSE NullContent
     IN  IF /\ settings.enableNoteLocking
            /\ Truthy(existingContent)
            /\ lockMatch(existingContent)
         THEN /\ BeginList(data.lists, li + 1, totalNotesCreated + 1, opLog)
              /\ UNCHANGED nextUuid
         ELSE /\ Await("todo_write", li, 0, totalNotesCreated,
                       Op("write", listPathOf(list, settings.outputFolder),
                          ToDoContent(list, existingContent, Uuid(nextUuid)), li, 0),
                       opLog)
              /\ nextUuid' = IF Truthy(existingContent)
                             THEN nextUuid ELSE nextUuid + 1
  /\ Quiet

\* 484-486: the list is counted
AfterToDoWrite ==
  /\ Resolved("todo_write")
  /\ IF reply.ok
     THEN BeginList(data.lists, li + 1, totalNotesCreated + 1, opLog)
     ELSE Throw
  /\ UNCHANGED nextUuid
  /\ Quiet

\* the user, back in the editor once the dialog has reported and gone,
\* changes the text of a note
Edit(path, content) ==
  /\ Stopped
  /\ edits < MaxEdits
  /\ edits' = edits + 1
  /\ vault' = WriteFile(vault, path, content)
  /\ pc' = "idle"
  /\ outcome' = NoOutcome
  /\ UNCHANGED <<settings, nextUuid, fileVars, renderVars, mergeVars, folders, data, li, ii,
                 totalNotesCreated, pending, reply, opLog, vault0, batches,
                 failures>>

\* the user sets the lock property of a note to true
UserSetLock ==
  \E path \in DOMAIN vault :
    /\ ~lockMatch(vault[path])
    /\ Edit(path, SetLock(vault[path]))

\* the user writes a line lock: true into the first comment zone of a note
UserLockLineInComment ==
  \E path \in DOMAIN vault :
    LET id == extractItemId(vault[path])
    IN  /\ id # Null
        /\ WellNested(vault[path], id)
        /\ ~lockMatch(vault[path])
        /\ Edit(path, SetZones(vault[path], id,
                               <<"\n", "lock:", " ", "true", "\n">>,
                               ZoneB(vault[path], id)))

\* the user ticks an open checklist line
UserCheckTask ==
  \E path \in DOMAIN vault :
    \E i \in 1..Len(vault[path]) :
      /\ vault[path][i] = Unchecked
      /\ Edit(path, [vault[path] EXCEPT ![i] = Checked])

\* the user writes into both comment zones of a note
UserComment ==
  \E path \in DOMAIN vault :
    LET id == extractItemId(vault[path])
    IN  /\ id # Null
        /\ WellNested(vault[path], id)
        /\ ZoneA(vault[path], id) # <<"\n", "x", "\n">>
        /\ Edit(path, SetZones(vault[path], id, <<"\n", "x", "\n">>,
                               <<"\n", "y", "\n">>))

\* the user deletes the content-end marker or the outer-start marker of a
\* note
UserDeleteMarker ==
  \E path \in DOMAIN vault :
    LET id == extractItemId(vault[path])
    IN  /\ id # Null
        /\ \E marker \in {endContentMarker(id), startBlockMarker(id)} :
             /\ includes(vault[path], marker)
             /\ Edit(path, SelectSeq(vault[path], LAMBDA c : c # marker))

\* the user's editor saves a comment into a note after the running import
\* has read the note and before the import's write of it reaches the
\* storage (731-733 and 523: the import awaits the template and the write
\* in between); the log keeps the text saved
UserCommentInFlight ==
  \E o \in pending :
    /\ o.op = "write"
    /\ FileExists(o.path)
    /\ edits < MaxEdits
    /\ edits' = edits + 1
    /\ LET id == extractItemId(vault[o.path])
           saved == SetZones(vault[o.path], id, <<"\n", "x", "\n">>,
                             <<"\n", "y", "\n">>)
       IN  /\ id # Null
           /\ WellNested(vault[o.path], id)
           /\ ZoneA(vault[o.path], id) # <<"\n", "x", "\n">>
           /\ vault' = WriteFile(vault, o.path, saved)
           /\ opLog' = Append(opLog, Event("edit", o, saved))
    /\ UNCHANGED <<settings, nextUuid, fileVars, renderVars, mergeVars, folders, data, pc,
                   li, ii, totalNotesCreated, pending, reply, outcome, vault0, batches,
                   failures>>

Init ==
  /\ settings \in BatchSettings
  /\ nextUuid = 1
  /\ fileName = <<>>
  /\ sanitized = NotCalled
  /\ mLog = <<>>
  /\ BatchIdle
  /\ RenderIdle

\* the steps of processListyData and of the storage it awaits
ImportNext ==
  \/ \E d \in DataSets : StartImport(d)
  \/ StorageRead
  \/ StorageWrite
  \/ StorageExists
  \/ StorageCreateFolder
  \/ AfterExistsRoot
  \/ AfterCreateRoot
  \/ AfterExistsFolder
  \/ AfterCreateFolder
  \/ AfterRead
  \/ AfterWrite
  \/ AfterToDoRead
  \/ AfterToDoWrite

Next ==
  \/ ImportNext
  \/ UserSetLock
  \/ UserCheckTask
  \/ UserComment
  \/ UserDeleteMarker
  \/ UserLockLineInComment

Spec == Init /\ [][Next]_vars

\* SpecFail: the same, over a storage that may reject a write or a
\* createFolder
NextFail ==
  \/ ImportNext
  \/ StorageRejects
  \/ UserSetLock
  \/ UserDeleteMarker

SpecFail == Init /\ [][NextFail]_vars

\* SpecReadFail: the same, over a storage that may reject the read of a
\* file that exists
NextReadFail ==
  \/ ImportNext
  \/ StorageReadRejects
  \/ UserSetLock
  \/ UserComment

SpecReadFail == Init /\ [][NextReadFail]_vars

\* SpecRace: the import, with the user editing a note while the import
\* that has read it is still running
NextRace ==
  \/ ImportNext
  \/ UserCommentInFlight

SpecRace == Init /\ [][NextRace]_vars

(***************************************************************************)
(* Properties of a batch, read off the log of storage operations.           *)
(***************************************************************************)
Events == DOMAIN opLog

Done(x, kind) == opLog[x].ev = "done" /\ opLog[x].op = kind

\* the writes the storage has performed in this batch
WritesDone == Cardinality({x \in Events : Done(x, "write")})

\* the text has a line that starts with the lock field, set to true
HasLockTrueLine(content) ==
  \E i \in 1..Len(content) :
    /\ content[i] = "lock:"
    /\ i = 1 \/ content[i - 1] \in LineTerminators
    /\ \E j \in (i + 1)..Len(content) :
         /\ content[j] = "true"
         /\ \A k \in (i + 1)..(j - 1) : content[k] \in Whitespace

\* the reads of this batch that found the locked note of an entry
LockedEntryReads ==
  {x \in Events : /\ Done(x, "read")
                  /\ opLog[x].ii > 0
                  /\ opLog[x].content # NullContent
                  /\ HasLockTrueLine(opLog[x].content)}

\* the reads of this batch for the to-do note of a list
ToDoReads == {x \in Events : Done(x, "read") /\ opLog[x].ii = 0}

\* the writes of this batch of the to-do note of a list; the read of the
\* same note is two events earlier
ToDoWrites == {x \in Events : Done(x, "write") /\ opLog[x].ii = 0}

PriorOf(x) == opLog[x - 2].content

\* C3: with locking enabled, an entry whose stored note has a line starting
\* with lock set to true gets no write in the batch, nothing later in the
\* batch writes to its path, the stored note stays as it was read until the
\* user edits it, and the returned count holds only the entries written and the
\* to-do lists handled, in the first import and in every repeated one.
LockSkip ==
  settings.enableNoteLocking =>
    /\ \A x \in LockedEntryReads :
         /\ \A y \in Events :
              opLog[y].op = "write" =>
                /\ <<opLog[y].li, opLog[y].ii>> # <<opLog[x].li, opLog[x].ii>>
                /\ y > x => opLog[y].path # opLog[x].path
         /\ pc # "idle" => vault[opLog[x].path] = opLog[x].content
    /\ pc = "done" =>
         outcome = Returned(Cardinality({x \in Events : Done(x, "write") /\ opLog[x].ii > 0})
                            + Cardinality(ToDoReads))

\* a third import has ended in which a locked entry was read and skipped
\* beside an entry that was written
LockSkipWitness ==
  /\ settings.enableNoteLocking
  /\ pc = "done"
  /\ batches = MaxBatches
  /\ LockedEntryReads # {}
  /\ outcome = Returned(1)

\* C5: re-importing a to-do note with intact markers keeps the text of both
\* comment zones and the marker token.
ConsolidatedCommentPreservation ==
  \A x \in ToDoWrites :
    LET prior == PriorOf(x)
        id == extractItemId(prior)
    IN  (prior # NullContent /\ id # Null /\ WellNested(prior, id)) =>
          /\ extractItemId(opLog[x].content) = id
          /\ WellNested(opLog[x].content, id)
          /\ ZoneA(opLog[x].content, id) = ZoneA(prior, id)
          /\ ZoneB(opLog[x].content, id) = ZoneB(prior, id)

\* a to-do note holding the user's text in its zones was re-imported and
\* written back under the same token with the placeholder in both zones
ConsolidatedCommentLost ==
  \E x \in ToDoWrites :
    LET prior == PriorOf(x)
        id == extractItemId(prior)
    IN  /\ prior # NullContent
        /\ id # Null
        /\ WellNested(prior, id)
        /\ ZoneA(prior, id) = <<"\n", "x", "\n">>
        /\ extractItemId(opLog[x].content) = id
        /\ ZoneA(opLog[x].content, id) = <<"\n", "\n">> \o Placeholder
        /\ ZoneB(opLog[x].content, id) = <<"\n", "\n">> \o Placeholder

\* the checklist lines of the text read before write x; none when the read failed
PriorLines(x) ==
  IF PriorOf(x) = NullContent THEN <<>> ELSE TaskMatches(PriorOf(x))

\* the to-do note written at x has one checklist line per item, in order,
\* and line k is checked exactly when Holds(k) is
ChecklistWritten(x, Holds(_)) ==
  LET items == data.lists[opLog[x].li].items
      lines == TaskMatches(opLog[x].content)
  IN  /\ Len(lines) = Len(items)
      /\ \A k \in 1..Len(items) :
           /\ lines[k][2] = items[k].title
           /\ lines[k][1] <=> Holds(k)

\* C6 as stated: a line is checked iff the item is marked or some checklist
\* line of the prior note with exactly that title is checked.
ChecklistAnyPriorLine ==
  \A x \in ToDoWrites :
    LET items == data.lists[opLog[x].li].items
        prior == PriorLines(x)
        Holds(k) == \/ items[k].marked
                    \/ \E m \in DOMAIN prior : prior[m] = <<TRUE, items[k].title>>
    IN  ChecklistWritten(x, Holds)

\* C6: a line is checked iff the item is marked or the last checklist line of
\* the prior note with exactly that title is checked; so a line the user
\* ticked stays ticked, and a renamed item starts unticked.
ChecklistLastPriorLine ==
  \A x \in ToDoWrites :
    LET items == data.lists[opLog[x].li].items
        prior == PriorLines(x)
        Holds(k) == \/ items[k].marked
                    \/ \E m \in DOMAIN prior :
                         /\ prior[m] = <<TRUE, items[k].title>>
                         /\ \A n \in DOMAIN prior : n > m => prior[n][2] # items[k].title
    IN  ChecklistWritten(x, Holds)

\* the list with p marked and q open was re-imported after the user ticked
\* the line of q, and both lines were written ticked
ChecklistWitness ==
  \E x \in ToDoWrites :
    /\ edits = 1
    /\ PriorLines(x) = <<<<TRUE, <<"p">>>>, <<TRUE, <<"q">>>>>>
    /\ ~data.lists[opLog[x].li].items[2].marked
    /\ TaskMatches(opLog[x].content) = <<<<TRUE, <<"p">>>>, <<TRUE, <<"q">>>>>>

\* C8: an import started on a root without lists member, or whose lists is
\* not an array, has failed with an error, has issued no storage operation,
\* has left the vault as it was and has returned no count.
ValidationAtomic ==
  (pc # "idle" /\ data.shape # "array") =>
    /\ pc = "failed"
    /\ outcome = Thrown
    /\ opLog = <<>>
    /\ pending = {}
    /\ vault = vault0

\* an import of a root whose lists is not an array has failed over a vault
\* that holds notes
ValidationAtomicWitness ==
  /\ pc = "failed"
  /\ data.shape = "notArray"
  /\ DOMAIN vault # {}

\* C9: a locked to-do note is neither written nor counted, so the count a
\* batch returns is the number of writes performed in it.
CountEqualsWrites ==
  pc = "done" => outcome = Returned(WritesDone)

\* a batch ended that read a locked to-do note, wrote nothing and returned 1
LockedToDoCounted ==
  /\ pc = "done"
  /\ settings.enableNoteLocking
  /\ \E x \in ToDoReads : HasLockTrueLine(opLog[x].content)
  /\ WritesDone = 0
  /\ outcome = Returned(1)

\* C10: at most one storage operation is in flight; every operation issued
\* is performed before the next is issued; operations follow the order of
\* the lists and of the items in them; the read of an entry precedes its
\* write, and both are for the note of that entry.
Sequential ==
  /\ Cardinality(pending) <= 1
  /\ \A x \in Events :
       /\ x % 2 = 1 => opLog[x].ev = "issue"
       /\ x % 2 = 0 => /\ opLog[x].ev \in {"done", "failed"}
                       /\ opLog[x].op = opLog[x - 1].op
                       /\ opLog[x].path = opLog[x - 1].path
                       /\ <<opLog[x].li, opLog[x].ii>> = <<opLog[x - 1].li, opLog[x - 1].ii>>
       /\ opLog[x].ii > 0 =>
            /\ opLog[x].op \in {"read", "write"}
            /\ opLog[x].path = notePathOf(data.lists[opLog[x].li],
                                          data.lists[opLog[x].li].items[opLog[x].ii])
  /\ \A x, y \in Events :
       x < y =>
         /\ \/ opLog[x].li < opLog[y].li
            \/ opLog[x].li = opLog[y].li /\ opLog[x].ii <= opLog[y].ii
         /\ opLog[x].op = "write" =>
              \/ opLog[y].op = "write"
              \/ <<opLog[x].li, opLog[x].ii>> # <<opLog[y].li, opLog[y].ii>>

\* a batch has ended in which two entries of one list were each read and
\* then written
SequentialWitness ==
  /\ pc = "done"
  /\ \E x, y \in Events :
       /\ Done(x, "write")
       /\ Done(y, "write")
       /\ opLog[x].li = opLog[y].li
       /\ opLog[x].ii = 1
       /\ opLog[y].ii = 2
\* the reads a complete run over the lists makes: one per item of a list
\* kept as single notes, one per list kept as a to-do note
ExpectedReads ==
  UNION { IF shouldConsolidate(data.lists[l])
          THEN {<<l, 0>>}
          ELSE {<<l, i>> : i \in 1..Len(data.lists[l].items)} :
          l \in {k \in DOMAIN data.lists : Len(data.lists[k].items) > 0} }

\* a read whose outcome the import recovers from: no file, a locked note,
\* or a note without a token or lacking one of the markers of its token
Recoverable(x) ==
  /\ Done(x, "read")
  /\ LET c == opLog[x].content
     IN  \/ c = NullContent
         \/ HasLockTrueLine(c)
         \/ extractItemId(c) = Null
         \/ LacksMarker(c, extractItemId(c))

\* C11: an import of well-formed data fails only on a rejected write or
\* folder creation, never on a missing, locked or marker-damaged note; until
\* it ends, an operation is outstanding or its answer is there to go on with; once a recoverable read is
\* behind it and it has ended without a rejection, it has read every entry
\* and every to-do list of the input and has returned a count.
NoAbort ==
  (pc # "idle" /\ data.shape = "array") =>
    /\ pc = "failed" =>
         /\ opLog # <<>>
         /\ opLog[Len(opLog)].ev = "failed"
         /\ opLog[Len(opLog)].op \in {"write", "createFolder"}
    /\ (opLog # <<>> /\ Recoverable(Len(opLog))) => pc \in {"read", "todo_read", "done"}
    /\ ~Stopped => (pending # {} \/ reply # NoReply)
    /\ pc = "done" =>
         /\ outcome.kind = "count"
         /\ {<<opLog[x].li, opLog[x].ii>> : x \in {y \in Events : Done(y, "read")}}
              = ExpectedReads

\* an import has ended with a count after reading a missing note, and after
\* reading a locked note that is followed by a further entry
NoAbortWitness ==
  /\ pc = "done"
  /\ outcome.kind = "count"
  /\ \E x, y \in Events :
       /\ Done(x, "read") /\ opLog[x].ii > 0 /\ HasLockTrueLine(opLog[x].content)
       /\ Done(y, "read") /\ opLog[y].content = NullContent
       /\ y > x

\* an import has ended with a count after reading a note that lacks a marker
NoAbortDamagedWitness ==
  /\ pc = "done"
  /\ \E x \in Events :
       /\ Done(x, "read")
       /\ opLog[x].content # NullContent
       /\ extractItemId(opLog[x].content) # Null
       /\ LacksMarker(opLog[x].content, extractItemId(opLog[x].content))

\* C12: once a write or a folder creation of the import has been rejected,
\* that is the last storage event of the import and nothing is in flight;
\* the import ends failed, with an error and no count; and every note
\* written earlier in the import holds the text last written to it.
PartialFailure ==
  \A x \in Events :
    opLog[x].ev = "failed" =>
      /\ x = Len(opLog)
      /\ pending = {}
      /\ pc \in {"create_root", "create_folder", "write", "todo_write", "failed", "idle"}
      /\ pc = "failed" =>
           /\ outcome = Thrown
           /\ \A y \in Events :
                ( /\ Done(y, "write")
                  /\ \A z \in Events : (z > y /\ Done(z, "write")) =>
                                          opLog[z].path # opLog[y].path )
                => ( /\ FileExists(opLog[y].path)
                     /\ vault[opLog[y].path] = opLog[y].content )

\* the write of the second entry of a list was rejected after the note of
\* the first was written: the import has failed, the first note is stored,
\* the second is not
PartialFailureWitness ==
  /\ pc = "failed"
  /\ outcome = Thrown
  /\ Len(opLog) > 0
  /\ opLog[Len(opLog)].ev = "failed"
  /\ opLog[Len(opLog)].op = "write"
  /\ opLog[Len(opLog)].ii = 2
  /\ ~FileExists(opLog[Len(opLog)].path)
  /\ \E y \in Events :
       /\ Done(y, "write")
       /\ opLog[y].li = opLog[Len(opLog)].li
       /\ opLog[y].ii = 1
       /\ vault[opLog[y].path] = opLog[y].content

(***************************************************************************)
(* Properties of SpecRender.                                                *)
(***************************************************************************)
NamedPlaceholders ==
  {"{{title}}", "{{url}}", "{{type}}", "{{dateadded}}", "{{listtitle}}",
   "{{listtype}}", "{{create}}", "{{update}}", "{{description}}", "{{cover}}",
   "{{usernote}}", "{{author}}", "{{genre}}", "{{rating}}", "{{date}}",
   "{{price}}"}

Recognized(atom) == toLowerCase(atom) \in NamedPlaceholders \/ IsAttr(atom)

Rendered == 1..Len(renders)

\* C13: after the substitution no recognized placeholder, named or of the
\* form {{ATTR:key}}, is left as literal text in a generated body.
NoLiteralPlaceholder ==
  \A r \in Rendered :
    \A k \in 1..Len(renders[r].body) : ~Recognized(renders[r].body[k])

\* two ATTR placeholders in a row, an Entry that has attributes: the second
\* placeholder is in the body
AttrLeftLiteral ==
  /\ settings.template = <<"{{ATTR:k}}", "{{ATTR:m}}">>
  /\ Len(entry.attributes) > 0
  /\ renders # <<>>
  /\ renders[1].body = <<"{{ATTR:m}}">>

\* the key of the header line that starts at atom i, or "" where no line
\* with a key starts
HeaderKeyAt(h, i) ==
  IF i > 1 /\ h[i - 1] # "\n" THEN ""
  ELSE CASE h[i] = "source: listy" -> "source"
         [] h[i] = "dateAdded: " -> "dateAdded"
         [] h[i] = "type: " -> "type"
         [] h[i] = "marked: " -> "marked"
         [] h[i] = "lock:" -> "lock"
         [] OTHER -> IF i < Len(h) /\ h[i + 1] \in {": ", ": |"} THEN h[i] ELSE ""

LinesOf(h, key) == Cardinality({i \in 1..Len(h) : HeaderKeyAt(h, i) = key})

FixedKeys == {"source", "list", "dateAdded", "type", "marked"}

\* the header of render r, generated from item: the fixed lines, the url
\* line, the attribute keys in lower case
HeaderShapeOf(r, item) ==
  LET h == renders[r].header
  IN  /\ \A key \in FixedKeys : LinesOf(h, key) = 1
      /\ IsInfix(<<"list", ": ", "\"">> \o escapeYamlString(Reading.title)
                  \o <<"\"", "\n">>, h)
      /\ IsInfix(<<"dateAdded: ">> \o item.dateAdded \o <<"\n">>, h)
      /\ IsInfix(<<"type: ", toLowerCase(item.type), "\n">>, h)
      /\ LinesOf(h, "url") = (IF item.url # <<>> THEN 1 ELSE 0)
      /\ \A a \in 1..Len(item.attributes) :
           /\ LinesOf(h, toLowerCase(item.attributes[a].key)) >= 1
           /\ toUpperCase(item.attributes[a].key) # toLowerCase(item.attributes[a].key)
                => LinesOf(h, toUpperCase(item.attributes[a].key)) = 0

OrwellExample(r) ==
  /\ IsInfix(<<"list", ": ", "\"", "R", "e", "a", "d", "i", "n", "g", "\"", "\n">>,
              renders[r].header)
  /\ IsInfix(<<"author", ": ", "\"", "O", "r", "w", "e", "l", "l", "\"", "\n">>,
              renders[r].header)
  /\ IsInfix(<<"marked: ", "false", "\n">>, renders[r].header)
  /\ IsInfix(<<"type: ", "books", "\n">>, renders[r].header)
  /\ IsInfix(<<"# ", "1", "9", "8", "4", "\n">>, renders[r].body)
  /\ IsInfix(<<"[Visit Original Source](", "http://x", ")">>, renders[r].body)

\* the first render is made from the Entry as loaded; its title, type, url
\* and attribute keys are the same in every later state
IsOrwell == entry.title = Orwell.title /\ settings.template = DEFAULT_TEMPLATE

\* C14: the header of every Entry has exactly one line each for source, list,
\* dateAdded, type and marked, a url line iff the Entry has a URL, and the
\* attribute keys in lower case; the Entry 1984 of collection Reading gives
\* the header and body of the example.
HeaderShape ==
  \A r \in Rendered :
    /\ HeaderShapeOf(r, entry)
    /\ IsOrwell => OrwellExample(r)

\* an Entry with an attribute keyed TYPE: two lines of the header begin
\* with type
DuplicateTypeLine ==
  /\ renders # <<>>
  /\ \E a \in 1..Len(entry.attributes) : entry.attributes[a].key = "TYPE"
  /\ LinesOf(renders[1].header, "type") = 2

\* the keys of the attributes differ from the keys of the fixed lines
NoKeyCollision ==
  \A a \in 1..Len(entry.attributes) :
    toLowerCase(entry.attributes[a].key) \notin FixedKeys \cup {"url", "lock"}

\* C14 for the Entries whose attribute keys differ from the fixed keys
HeaderShapeDistinctKeys == NoKeyCollision => HeaderShape

OrwellRendered == IsOrwell /\ renders # <<>> /\ OrwellExample(1)

(***************************************************************************)
(* Properties of the stored lock field (Spec).                              *)
(***************************************************************************)
LockLineStarts(content) ==
  {i \in 1..Len(content) :
     content[i] = "lock:" /\ (i = 1 \/ content[i - 1] \in LineTerminators)}

\* the value of the lock field of a stored text: <<>> where the text has no
\* lock line
LockField(content) ==
  IF LockLineStarts(content) = {} THEN <<>>
  ELSE LET i == CHOOSE k \in LockLineStarts(content) :
                  \A g \in LockLineStarts(content) : k <= g
           j == SkipWhitespace(content, i + 1)
       IN  IF j <= Len(content) THEN <<content[j]>> ELSE <<>>

LockFieldsKept ==
  \A path \in DOMAIN vault0 :
    FileExists(path) /\ LockField(vault[path]) = LockField(vault0[path])

\* C15: an import never overwrites the lock field of a document that
\* exists, whether locking is enabled or disabled: the value stored after
\* the import is the value stored before it.
LockNeverOverwritten == pc # "idle" => LockFieldsKept

\* locking disabled: a note that held lock: true has been written again and
\* holds no lock: true any more
LockOverwritten ==
  /\ pc = "done"
  /\ ~settings.enableNoteLocking
  /\ \E path \in DOMAIN vault0 :
       /\ LockField(vault0[path]) = <<"true">>
       /\ LockField(vault[path]) = <<>>
       /\ \E x \in Events : Done(x, "write") /\ opLog[x].path = path

\* C15 with locking enabled
LockKeptWhenEnabled ==
  (pc # "idle" /\ settings.enableNoteLocking) => LockFieldsKept

\* C16: generating the header and the body of an Entry leaves the Entry in
\* memory as it was, and a second rendering of the same Entry gives the
\* header and body of the first.
RenderPure ==
  [][/\ entry' = entry
     /\ renders # <<>> => renders'[Len(renders')] = renders[Len(renders)]]_vars

\* a description with a #, a replacement that holds a #: the Entry in memory
\* holds the rewritten description, and the second rendering differs
RenderTwiceDiffers ==
  /\ Len(renders) = 2
  /\ renders[1].header # renders[2].header
  /\ renders[1].body # renders[2].body
  /\ entry.attributes = <<Attr("DESCRIPTION", <<"a", "\\", "\\", "#", "b">>)>>

Ellipsis == <<".", ".", ".">>

\* the body of render r is the title as the template receives it
TitleOnly == settings.template = <<"{{Title}}">>

TruncationOf(r) ==
  LET title == entry.title
      max == settings.maxTitleLength
      b == renders[r].body
  IN  /\ Len(title) <= max => b = title
      /\ Len(title) > max =>
            /\ Len(b) = max
            /\ SubSeq(b, max - EllipsisLength + 1, max) = Ellipsis
            /\ SubSeq(b, 1, max - EllipsisLength)
                 = SubSeq(title, 1, max - EllipsisLength)

\* C20: a title of at most the configured maximum length reaches the body
\* unchanged, without ellipsis, a title of exactly the maximum included; a
\* longer title is cut to exactly the maximum length and ends with "...".
TitleTruncation == \A r \in Rendered : TitleOnly => TruncationOf(r)

\* a title of exactly the maximum length has lost its last three characters
ExactLengthTitleAltered ==
  /\ TitleOnly
  /\ renders # <<>>
  /\ Len(entry.title) = settings.maxTitleLength
  /\ renders[1].body
       = SubSeq(entry.title, 1, settings.maxTitleLength - EllipsisLength) \o Ellipsis

\* C20 for the titles shorter or longer than the maximum
TitleTruncationOffMaximum ==
  \A r \in Rendered :
    (TitleOnly /\ Len(entry.title) # settings.maxTitleLength) => TruncationOf(r)

(***************************************************************************)
(* Properties of the routing of lists (Spec).                               *)
(***************************************************************************)
WritesOf(l, i) ==
  {x \in Events : Done(x, "write") /\ opLog[x].li = l /\ opLog[x].ii = i}

\* the import found the document of entry i of list l (i = 0: of list l)
\* locked and left it alone
Skipped(l, i) ==
  /\ settings.enableNoteLocking
  /\ \E x \in Events : /\ Done(x, "read")
                        /\ opLog[x].li = l /\ opLog[x].ii = i
                        /\ opLog[x].content # NullContent
                        /\ HasLockTrueLine(opLog[x].content)

Consolidated(l) ==
  data.lists[l].type = "Tasks" /\ settings.consolidateToDoLists

ConsolidatedPath(l) ==
  settings.outputFolder \o <<"/">> \o sanitizeFileName(data.lists[l].title)
  \o <<".md">>

FolderOf(l) ==
  settings.outputFolder \o <<"/">> \o sanitizeFileName(data.lists[l].title)

EntryPath(l, i) ==
  FolderOf(l) \o <<"/">> \o sanitizeFileName(data.lists[l].items[i].title)
  \o <<".md">>

\* the storage operations made for list l; unlessLocked: a locked document
\* is expected to be left unwritten
RoutedAs(l, unlessLocked) ==
  LET n == Len(data.lists[l].items)
      mine == {x \in Events : opLog[x].li = l}
      writes(i) == IF unlessLocked /\ Skipped(l, i) THEN 0 ELSE 1
  IN  IF Consolidated(l)
      THEN /\ \A x \in mine : /\ opLog[x].ii = 0
                               /\ opLog[x].op \in {"read", "write"}
                               /\ opLog[x].path = ConsolidatedPath(l)
           /\ Cardinality(WritesOf(l, 0)) = writes(0)
           /\ FolderOf(l) \notin folders
      ELSE /\ \A x \in mine :
                \/ /\ opLog[x].op \in {"exists", "createFolder"}
                   /\ opLog[x].path = FolderOf(l)
                \/ /\ opLog[x].op \in {"read", "write"}
                   /\ opLog[x].ii \in 1..n
                   /\ opLog[x].path = EntryPath(l, opLog[x].ii)
           /\ FolderOf(l) \in folders
           /\ \A i \in 1..n : Cardinality(WritesOf(l, i)) = writes(i)

RECURSIVE CountedUpTo(_, _)
CountedUpTo(l, unlessLocked) ==
  IF l = 0 THEN 0
  ELSE CountedUpTo(l - 1, unlessLocked)
       + (IF Consolidated(l) THEN (IF Len(data.lists[l].items) > 0 THEN 1 ELSE 0)
          ELSE Cardinality({i \in 1..Len(data.lists[l].items) :
                              ~(unlessLocked /\ Skipped(l, i))}))

RoutingOf(unlessLocked) ==
  (pc = "done" /\ data.shape = "array") =>
    /\ \A l \in DOMAIN data.lists :
         Len(data.lists[l].items) > 0 => RoutedAs(l, unlessLocked)
    /\ outcome = Returned(CountedUpTo(Len(data.lists), unlessLocked))

MergedWellNested ==
  /\ Len(mLog) >= 2
  /\ Last.op = "merge"
  /\ mLog[Len(mLog) - 1].content # NullContent
  /\ extractItemId(mLog[Len(mLog) - 1].content) # Null
  /\ WellNested(mLog[Len(mLog) - 1].content,
                extractItemId(mLog[Len(mLog) - 1].content))

\* C18: a prior document that holds the four markers of its token in nested
\* order is merged into exactly: fresh header, outer-start, prior zone A,
\* content-start, two newlines, fresh body, two newlines, content-end,
\* prior zone B, outer-end, newline; header and body come from the entry.
Recomposition ==
  MergedWellNested =>
    LET prior == mLog[Len(mLog) - 1].content
        id == extractItemId(prior)
    IN  Last.content =
          generateFrontmatter(Last.item, MergeList)
          \o <<startBlockMarker(id)>> \o ZoneA(prior, id)
          \o <<startContentMarker(id), "\n", "\n">>
          \o generateItemContent(Last.item, MergeList)
          \o <<"\n", "\n", endContentMarker(id)>> \o ZoneB(prior, id)
          \o <<endBlockMarker(id), "\n">>

\* a note whose zones the user filled, the first with a copy of the
\* content-start marker in it, has been merged with another entry
RecompositionWitness ==
  /\ MergedWellNested
  /\ Len(mLog) = 4
  /\ mLog[3].op = "inject"
  /\ mLog[3].a = <<"x", startContentMarker(mLog[3].id), "\n">>
  /\ ZoneA(mLog[3].content, mLog[3].id) = <<"x">>
  /\ ZoneB(mLog[3].content, mLog[3].id) = <<"\n", "y">>
  /\ Last.item # mLog[2].item
  /\ Last.content # mLog[3].content

Atoms(text) == {text[i] : i \in 1..Len(text)}

\* the atoms of a prior text outside its marker skeleton: before the
\* outer-start marker, between the content markers, after the outer-end
OutsideSkeleton(prior, id) ==
  Atoms(SubSeq(prior, 1, indexOf(prior, startBlockMarker(id))))
  \cup Atoms(Between(prior, startContentMarker(id), endContentMarker(id)))
  \cup Atoms(SubSeq(prior, indexOf(prior, endBlockMarker(id)) + 2, Len(prior)))

\* C19: what a prior document holds before its outer-start marker, after
\* its outer-end marker and between its content markers is not in the new
\* document, unless the fresh header or body, a kept comment zone or the
\* marker skeleton holds the same text.
OutsideDiscarded ==
  MergedWellNested =>
    LET prior == mLog[Len(mLog) - 1].content
        id == extractItemId(prior)
        kept == Atoms(generateFrontmatter(Last.item, MergeList))
                \cup Atoms(generateItemContent(Last.item, MergeList))
                \cup Atoms(ZoneA(prior, id)) \cup Atoms(ZoneB(prior, id))
                \cup {startBlockMarker(id), startContentMarker(id),
                      endContentMarker(id), endBlockMarker(id), "\n"}
    IN  /\ \A c \in OutsideSkeleton(prior, id) \ kept : ~includes(Last.content, c)
        /\ mLog[Len(mLog) - 1].op = "scribble" =>
             Last.content = generateNoteContent(Last.item, MergeList,
                                                mLog[Len(mLog) - 2].content, Uuid(nextUuid))

\* a note with text typed before, inside and after its skeleton has been
\* merged with an entry of another title: none of the three texts is left
OutsideDiscardedWitness ==
  /\ MergedWellNested
  /\ mLog[Len(mLog) - 1].op = "scribble"
  /\ {"<before>", "<inside>", "<after>"} \subseteq Atoms(mLog[Len(mLog) - 1].content)
  /\ Last.item.title # mLog[Len(mLog) - 1].item.title
  /\ Atoms(Last.content) \cap {"<before>", "<inside>", "<after>"} = {}

(***************************************************************************)
(* Properties of the attribute lookup (SpecRender).                         *)
(***************************************************************************)
\* the keys of the header lines, in the order of the lines
RECURSIVE HeaderKeysFrom(_, _)
HeaderKeysFrom(h, i) ==
  IF i > Len(h) THEN <<>>
  ELSE (IF HeaderKeyAt(h, i) # "" THEN <<HeaderKeyAt(h, i)>> ELSE <<>>)
       \o HeaderKeysFrom(h, i + 1)

\* the keys of the attributes in lower case, each at its first occurrence
RECURSIVE FirstOccurrences(_)
FirstOccurrences(attributes) ==
  IF attributes = <<>> THEN <<>>
  ELSE LET n == Len(attributes)
           front == SubSeq(attributes, 1, n - 1)
           key == toLowerCase(attributes[n].key)
       IN  IF \E j \in 1..(n - 1) : toLowerCase(attributes[j].key) = key
           THEN FirstOccurrences(front)
           ELSE Append(FirstOccurrences(front), key)

\* the value of the last attribute whose key is key in any case
LastValue(attributes, key) ==
  LET hits == {j \in 1..Len(attributes) : toLowerCase(attributes[j].key) = key}
  IN  IF hits = {} THEN <<>>
      ELSE attributes[CHOOSE j \in hits : \A g \in hits : g <= j].value

HasKey(attributes, key) ==
  \E j \in 1..Len(attributes) : toLowerCase(attributes[j].key) = key

ExpectedHeaderKeys(item) ==
  LET a == item.attributes
      known(key) == IF HasKey(a, key) THEN <<key>> ELSE <<>>
  IN  <<"---", "source", "list", "dateAdded">>
      \o (IF item.url # <<>> THEN <<"url">> ELSE <<>>)
      \o <<"type">>
      \o known("description") \o known("author") \o known("cover")
      \o (IF HasKey(a, "tags") THEN <<"original_tags">> ELSE <<>>)
      \o known("icon")
      \o SelectSeq(FirstOccurrences(a), LAMBDA key : key \notin KnownKeys)
      \o <<"marked">>
      \o (IF settings.enableNoteLocking THEN <<"lock">> ELSE <<>>)
      \o <<"---">>

HasDuplicateKey ==
  \E i, j \in 1..Len(entry.attributes) :
    i < j /\ toLowerCase(entry.attributes[i].key) = toLowerCase(entry.attributes[j].key)

\* C21: attributes whose keys are equal in any case give one header line,
\* holding the value of the last of them, at the place of the first of them
\* among the remaining fields; description, author, cover, tags and icon
\* come first, in that order, and are not emitted again.
LookupPolicy ==
  \A r \in Rendered :
    /\ SelectSeq(HeaderKeysFrom(renders[r].header, 1), LAMBDA key : key # "---")
         = SelectSeq(ExpectedHeaderKeys(entry), LAMBDA key : key # "---")
    /\ \A j \in 1..Len(entry.attributes) :
         LET key == toLowerCase(entry.attributes[j].key)
         IN  key \notin {"description", "tags"} =>
               IsInfix(<<"\n", key, ": ", "\"">>
                       \o escapeYamlString(LastValue(entry.attributes, key))
                       \o <<"\"", "\n">>, renders[r].header)

\* an Entry with the attributes icon, m, Author, AUTHOR has been rendered:
\* one author line with the last value, before icon and m
LookupPolicyWitness ==
  /\ renders # <<>>
  /\ HasDuplicateKey
  /\ HasKey(entry.attributes, "icon")
  /\ IsInfix(<<"author", ": ", "\"", "p", "\"", "\n", "icon", ": ", "\"", "i", "\"", "\n",
               "m", ": ", "\"", "w", "\"", "\n", "marked: ">>, renders[1].header)

\* the key a one-placeholder template asks for, "" for another template
AskedKey ==
  CASE settings.template = <<"{{ATTR:k}}">> -> "k"
    [] settings.template = <<"{{attr:K}}">> -> "k"
    [] settings.template = <<"{{ATTR:m}}">> -> "m"
    [] settings.template = <<"{{author}}">> -> "author"
    [] OTHER -> ""

\* C22: the body shows for a placeholder of an attribute the value the
\* header shows for that key: with several attributes of the same key in
\* any case, the value of the last of them.
BodyUsesLookup ==
  \A r \in Rendered :
    AskedKey # "" => renders[r].body = LastValue(entry.attributes, AskedKey)

\* attributes k = v, m = w, K = u and the template {{ATTR:k}}: the header
\* holds k: "u", the body is v
BodyShowsFirst ==
  /\ renders # <<>>
  /\ settings.template = <<"{{ATTR:k}}">>
  /\ HasDuplicateKey
  /\ IsInfix(<<"k", ": ", "\"", "u", "\"", "\n">>, renders[1].header)
  /\ renders[1].body = <<"v">>

\* C22 for the Entries without two attributes of the same key
BodyUsesLookupDistinctKeys == ~HasDuplicateKey => BodyUsesLookup

(***************************************************************************)
(* Properties of the lists without items (Spec).                            *)
(***************************************************************************)
EmptyLists == {l \in DOMAIN data.lists : Len(data.lists[l].items) = 0}

\* C23: a list without items is passed over in silence: no folder is made
\* for it, nothing is read or written for it, it adds nothing to the count,
\* and the lists after it are processed.
EmptySkipped ==
  (pc # "idle" /\ data.shape = "array") =>
    /\ \A l \in EmptyLists :
         /\ \A x \in Events : opLog[x].li # l
         /\ FolderOf(l) \notin folders
         /\ \A path \in DOMAIN vault :
              ~IsInfix(<<"/">> \o sanitizeFileName(data.lists[l].title), path)
    /\ pc = "done" =>
         /\ \A l \in (DOMAIN data.lists) \ EmptyLists :
              \E x \in Events : Done(x, "read") /\ opLog[x].li = l
         /\ outcome = Returned(CountedUpTo(Len(data.lists), TRUE))

\* an import whose first list has no items has ended after reading the
\* notes of the second and the third list
EmptySkippedWitness ==
  /\ pc = "done"
  /\ 1 \in EmptyLists
  /\ Len(data.lists) = 3
  /\ \E x \in Events : Done(x, "read") /\ opLog[x].li = 2
  /\ \E x \in Events : Done(x, "write") /\ opLog[x].li = 3
  /\ opLog[1].li = 0
  /\ outcome.kind = "count"

(***************************************************************************)
(* Properties of the markers of the written notes (Spec).                   *)
(***************************************************************************)
\* the text holds the four markers of the token that extractItemId finds
\* in it
WellFormed(content) ==
  /\ extractItemId(content) # Null
  /\ extractItemId(content) \in HexIds
  /\ MarkersComplete(content, extractItemId(content))

\* C24: every note the import writes, for an entry or for a list, whatever
\* the file held before, holds the four markers of one token of hex digits
\* and hyphens, and extractItemId finds that token in it.
MarkersWellFormed ==
  \A x \in Events : Done(x, "write") => WellFormed(opLog[x].content)

\* the note of a list has been written over a file that had lost its
\* outer-start marker: its markers carry the token null
NullTokenWritten ==
  \E x \in Events :
    /\ Done(x, "write")
    /\ opLog[x].ii = 0
    /\ includes(opLog[x].content, startBlockMarker(Null))
    /\ includes(opLog[x].content, endBlockMarker(Null))
    /\ extractItemId(opLog[x].content) = Null

\* C24 for the notes of the entries
EntryMarkersWellFormed ==
  \A x \in Events :
    (Done(x, "write") /\ opLog[x].ii > 0) => WellFormed(opLog[x].content)

(***************************************************************************)
(* Properties of repeated merges (SpecMerge).                               *)
(***************************************************************************)
\* the last two calls merged the same entry
MergedTwice ==
  /\ Len(mLog) >= 3
  /\ mLog[Len(mLog) - 1].op = "merge"
  /\ Last.op = "merge"
  /\ Last.item = mLog[Len(mLog) - 1].item

\* C25: whatever the prior text, also one with the four markers of its
\* token out of nested order, merging the same entry into the result of a
\* merge gives that result again.
MergeFixedPoint == MergedTwice => Last.content = mLog[Len(mLog) - 1].content

\* a note with a copy of the content-end marker in its first comment zone:
\* the second merge of one entry gives a longer note than the first
MergeGrows ==
  /\ MergedTwice
  /\ Len(mLog) = 3
  /\ mLog[1].content = CopiedMarkerDoc
  /\ CleanHeader(Last.item)
  /\ Last.id = mLog[2].id
  /\ Len(Last.content) > Len(mLog[2].content)

\* C25 for an entry with a clean header and a prior text that is absent,
\* without a token, lacking a marker of its token, or well nested
MergeFixedPointWellNested ==
  LET prior == mLog[Len(mLog) - 2].content
  IN  ( /\ MergedTwice
        /\ CleanHeader(Last.item)
        /\ \/ prior = NullContent
           \/ extractItemId(prior) = Null
           \/ LacksMarker(prior, extractItemId(prior))
           \/ WellNested(prior, extractItemId(prior)) )
      => Last.content = mLog[Len(mLog) - 1].content

(***************************************************************************)
(* Properties of the lock test (Spec).                                      *)
(***************************************************************************)
\* the header block of a text: from its first line --- to the next one
HeaderBlock(content) ==
  IF content # <<>> /\ content[1] = "---"
     /\ \E j \in 2..Len(content) : content[j] = "---"
  THEN SubSeq(content, 1, CHOOSE j \in 2..Len(content) :
                            /\ content[j] = "---"
                            /\ \A k \in 2..(j - 1) : content[k] # "---")
  ELSE <<>>

\* read x found a file and the import went on to write it
WrittenAfter(x) ==
  IF x = Len(opLog) THEN pc \in {"read", "todo_read"}
  ELSE /\ opLog[x + 1].ev = "issue"
       /\ opLog[x + 1].op = "write"
       /\ opLog[x + 1].li = opLog[x].li
       /\ opLog[x + 1].ii = opLog[x].ii

\* C26: with locking enabled a note is skipped only when the lock field in
\* its header block is true; a line lock: true in a comment zone or in the
\* body does not make the import skip the note.
OnlyHeaderLock ==
  pc # "idle" =>
    \A x \in Events :
      ( /\ Done(x, "read")
        /\ opLog[x].content # NullContent
        /\ ~HasLockTrueLine(HeaderBlock(opLog[x].content)) )
      => WrittenAfter(x)

\* a note whose header says lock: false and whose first comment zone holds
\* the line lock: true has been read and not written
CommentLockSkips ==
  /\ pc = "done"
  /\ settings.enableNoteLocking
  /\ \E x \in Events :
       /\ Done(x, "read")
       /\ opLog[x].content # NullContent
       /\ IsInfix(<<"lock:", " ", "false", "\n">>, HeaderBlock(opLog[x].content))
       /\ ~HasLockTrueLine(HeaderBlock(opLog[x].content))
       /\ HasLockTrueLine(opLog[x].content)
       /\ ~WrittenAfter(x)
       /\ vault[opLog[x].path] = opLog[x].content

(***************************************************************************)
(* Properties of the ticked lines over repeated imports (Spec).             *)
(***************************************************************************)
TitlesOf(x) ==
  {data.lists[opLog[x].li].items[k].title :
     k \in 1..Len(data.lists[opLog[x].li].items)}

ShownChecked(lines, title) ==
  \E m \in DOMAIN lines : lines[m] = <<TRUE, title>>

LastLineChecked(lines, title) ==
  \E m \in DOMAIN lines :
    /\ lines[m] = <<TRUE, title>>
    /\ \A n \in DOMAIN lines : n > m => lines[n][2] # title

\* C27: a title that the stored checklist shows checked, and that an entry
\* of the list still carries, is written checked by the import, whatever
\* the done flag of the entry.
CheckedMonotone ==
  \A x \in ToDoWrites :
    \A title \in TitlesOf(x) :
      ShownChecked(PriorLines(x), title)
        => ShownChecked(TaskMatches(opLog[x].content), title)

\* C27, amended: where the last stored line of a title is checked, every
\* entry with that title is written checked.
CheckedMonotoneLastLine ==
  \A x \in ToDoWrites :
    \A title \in TitlesOf(x) :
      LastLineChecked(PriorLines(x), title)
        => LET lines == TaskMatches(opLog[x].content)
           IN  /\ ShownChecked(lines, title)
               /\ \A m \in DOMAIN lines : lines[m][2] = title => lines[m][1]

\* the stored line of an entry that is not marked done was checked, and
\* the import has written it checked again
CheckedMonotoneWitness ==
  \E x \in ToDoWrites :
    \E k \in 1..Len(data.lists[opLog[x].li].items) :
      LET item == data.lists[opLog[x].li].items[k]
      IN  /\ ~item.marked
          /\ LastLineChecked(PriorLines(x), item.title)
          /\ TaskMatches(opLog[x].content)[k] = <<TRUE, item.title>>

(***************************************************************************)
(* Properties of entries that share a file name (Spec).                     *)
(***************************************************************************)
\* writes x and y of one import are those of two entries of one list, the
\* second later in the list, whose titles give the same file name
Colliding(x, y) ==
  /\ Done(x, "write") /\ Done(y, "write")
  /\ opLog[x].li = opLog[y].li
  /\ 0 < opLog[x].ii /\ opLog[x].ii < opLog[y].ii
  /\ sanitizeFileName(data.lists[opLog[x].li].items[opLog[x].ii].title)
       = sanitizeFileName(data.lists[opLog[y].li].items[opLog[y].ii].title)

\* C28: two entries of a list with the same file name share one path; the
\* second reads the note just written for the first and is merged into it:
\* the note keeps the token and the comment zones of the first and gets the
\* header and body of the second; both entries are counted.
CollisionMerge ==
  \A x, y \in Events :
    (Colliding(x, y) /\ opLog[y].ii = opLog[x].ii + 1) =>
      LET list == data.lists[opLog[y].li]
          second == list.items[opLog[y].ii]
          first == opLog[x].content
          id == extractItemId(first)
      IN  /\ opLog[y].path = opLog[x].path
          /\ PriorOf(y) = first
          /\ id \in Uuids
          /\ opLog[y].content =
                Compose(generateFrontmatter(second, list), id, ZoneA(first, id),
                        generateItemContent(second, list), ZoneB(first, id))
          /\ pc = "done" =>
                /\ outcome = Returned(CountedUpTo(Len(data.lists), TRUE))
                /\ outcome.count >= 2
                /\ opLog[y].ii = Len(list.items) => vault[opLog[y].path] = opLog[y].content

\* the entries p (done) and p (not done) of one list have been imported as
\* single notes: one file, with the header of the second entry, counted twice
CollisionWitness ==
  /\ pc = "done"
  /\ outcome = Returned(2)
  /\ Cardinality(DOMAIN vault) = 1
  /\ \E x, y \in Events :
       /\ Colliding(x, y)
       /\ data.lists[opLog[x].li].items[opLog[x].ii].marked
       /\ IsInfix(<<"marked: ", "true", "\n">>, opLog[x].content)
       /\ IsInfix(<<"marked: ", "false", "\n">>, vault[opLog[y].path])
       /\ extractItemId(vault[opLog[y].path]) = extractItemId(opLog[x].content)

(***************************************************************************)
(* Properties of a rejected read of a stored note (SpecReadFail).           *)
(***************************************************************************)
ReadFailures == {x \in Events : opLog[x].ev = "failed" /\ opLog[x].op = "read"}

\* the first-time document of the entry (i = 0: of the list) read at x
FirstTimeDocument(x, uuid) ==
  LET list == data.lists[opLog[x].li]
  IN  IF opLog[x].ii = 0
      THEN ToDoContent(list, NullContent, uuid)
      ELSE NewNote(list.items[opLog[x].ii], list, uuid)

StoredBefore(x) ==
  IF opLog[x - 1].ev = "edit" THEN opLog[x - 1].content ELSE PriorOf(x)

EditedInFlight(x) == opLog[x - 1].ev = "edit"

\* C30: no update of the user is lost: the comment zones of an entry's note
\* after the import's write are the comment zones stored immediately
\* before that write, also when the user saved the note between the
\* import's read and its write.
NoLostUpdate ==
  \A x \in Events :
    (Done(x, "write") /\ opLog[x].ii > 0) =>
      LET before == StoredBefore(x)
          id == extractItemId(before)
      IN  (before # NullContent /\ id # Null /\ WellNested(before, id)) =>
            /\ ZoneA(opLog[x].content, id) = ZoneA(before, id)
            /\ ZoneB(opLog[x].content, id) = ZoneB(before, id)

\* the same for the writes that no edit came before: the zones read are
\* the zones written
NoLostUpdateSequential ==
  \A x \in Events :
    (Done(x, "write") /\ opLog[x].ii > 0 /\ ~EditedInFlight(x)) =>
      LET before == StoredBefore(x)
          id == extractItemId(before)
      IN  (before # NullContent /\ id # Null /\ WellNested(before, id)) =>
            /\ ZoneA(opLog[x].content, id) = ZoneA(before, id)
            /\ ZoneB(opLog[x].content, id) = ZoneB(before, id)

\* the user saved the comment x into the note of an entry after the import
\* had read the note; the import has ended, and the note holds the
\* placeholder where the comment was
LostUpdate ==
  /\ pc = "done"
  /\ \E x \in Events :
       /\ Done(x, "write")
       /\ opLog[x].ii > 0
       /\ EditedInFlight(x)
       /\ LET id == extractItemId(opLog[x - 1].content)
          IN  /\ ZoneA(opLog[x - 1].content, id) = <<"\n", "x", "\n">>
              /\ extractItemId(vault[opLog[x].path]) = id
              /\ vault[opLog[x].path] = opLog[x].content
              /\ ZoneA(vault[opLog[x].path], id) = <<"\n", "\n">> \o Placeholder
              /\ ~IsInfix(<<"\n", "x", "\n">>, vault[opLog[x].path])
====
